---- MODULE Spec2Model ----
(***************************************************************************)
(* A model of the leftmike/gcode parser (package gcode, the action-based   *)
(* parser) and of the motion engine that consumes its codes.               *)
(*                                                                         *)
(* Numbers.  The program computes in float64.  The model computes in exact *)
(* rationals <<n, d>> (d > 0, lowest terms), so that the unit factor 25.4  *)
(* and the 0.0001 tolerance are represented exactly; floating-point        *)
(* rounding is not modelled.                                               *)
(*                                                                         *)
(* Source text.  The byte source is modelled at the granularity at which   *)
(* Parser.parse consumes it: one token per construct (a code with its      *)
(* expression, an assignment, a newline, a WHILE ... DO header, an END     *)
(* line).  Expressions are given as the trees the expression parser        *)
(* builds.                                                                 *)
(***************************************************************************)
EXTENDS Integers, Sequences, FiniteSets, TLC

VARIABLES
    features,     \* Parser.Features: subset of {"BeagleG","LinuxCNC","RepRap"}
    src,          \* unread tokens of the source
    fed,          \* number of source lines supplied so far
    lineState,    \* Parser.lineState
    physicalLine, \* Parser.physicalLine
    virtualLine,  \* Parser.virtualLine
    stack,        \* Parser.stack: frames of pending actions, top first
    building,     \* parseWhileBeagleG activations: loops being collected
    codes,        \* Parse: the codes accumulated for the current line
    endFuncs,     \* Parse: the deferred assignments of the current line
    lineCodes,    \* Evaluate: the codes still to dispatch
    useMachine,   \* Evaluate: the G53 flag
    parseFrom,    \* which call of p.Parse is active: "loop" or "g53"
    pc,           \* "parse", "dispatch", "done", "error", "crash"
    eng,          \* the engine record
    calls,        \* the Machine calls issued so far
    outW,         \* Parser.OutW: the lines written to it
    errW,         \* Parser.ErrW: the lines written to it
    inputs,       \* the arguments of a function applied on its own
    output,       \* what that function returned, once it has
    hist          \* observation record used by the properties

vars == <<features, src, fed, lineState, physicalLine, virtualLine, stack, building, codes, endFuncs,
          lineCodes, useMachine, parseFrom, pc, eng, calls, outW, errW, inputs, output,
          hist>>

\* the parser, the engine and the observations: all but inputs and output
machineVars == <<features, src, fed, lineState, physicalLine, virtualLine, stack, building,
                 codes, endFuncs, lineCodes, useMachine, parseFrom, pc, eng, calls, outW,
                 errW, hist>>

-----------------------------------------------------------------------------
(* Exact rational arithmetic standing for float64.                         *)

RECURSIVE GCD(_, _)
GCD(a, b) == IF b = 0 THEN a ELSE GCD(b, a % b)

IAbs(n) == IF n < 0 THEN -n ELSE n

\* the rational n/d in lowest terms with a positive denominator
Rat(n, d) ==
    LET s == IF d < 0 THEN -1 ELSE 1
        g == GCD(IAbs(n), IAbs(d))
    IN  <<(s * n) \div g, (s * d) \div g>>

Num(i) == <<i, 1>>
RAdd(a, b) == Rat(a[1] * b[2] + b[1] * a[2], a[2] * b[2])
RSub(a, b) == Rat(a[1] * b[2] - b[1] * a[2], a[2] * b[2])
RMul(a, b) == Rat(a[1] * b[1], a[2] * b[2])
\* division by zero yields an infinity or NaN in float64; the inputs of the
\* model never divide by zero (units is 1 or 25.4)
RDiv(a, b) == Rat(a[1] * b[2], a[2] * b[1])
RNeg(a) == <<-a[1], a[2]>>
RAbs(a) == <<IAbs(a[1]), a[2]>>
RLt(a, b) == a[1] * b[2] < b[1] * a[2]
RLe(a, b) == a[1] * b[2] <= b[1] * a[2]
\* math.Trunc followed by int(): truncation toward zero
RTrunc(a) == IF a[1] >= 0 THEN a[1] \div a[2] ELSE -((-a[1]) \div a[2])

minimumDelta == <<1, 10000>>
mmPerInch == <<127, 5>>

\* Number.Equal: delta := |n| - |n2|; |delta| < minimumDelta
NumberEqual(n, n2) == RLt(RAbs(RSub(RAbs(n), RAbs(n2))), minimumDelta)

\* Number.AsInteger: (int(n), n.Equal(trunc(n)))
AsInteger(n) == [int |-> RTrunc(n), ok |-> NumberEqual(n, Num(RTrunc(n)))]

-----------------------------------------------------------------------------
(* Positions and the engine record.                                        *)

Pos(x, y, z) == [X |-> x, Y |-> y, Z |-> z]
zeroPosition == Pos(Num(0), Num(0), Num(0))

NoErr == "none"
Undef == <<0, 0>>     \* marks a numeric parameter that was never written

CoordSysCount == 9
homePosXParam == 5161
homePosYParam == 5162
homePosZParam == 5163
secondPosXParam == 5181
secondPosYParam == 5182
secondPosZParam == 5183
workPosEnabled == 5210
workPosXParam == 5211
workPosYParam == 5212
workPosZParam == 5213
curCoordSysParam == 5220
coordSysParam == 5221
coordSysParamStep == 20

\* the general-purpose parameter numbers the model's programs use
StoreParams == {0, 1, 2, 100}

NewEngine ==
    [ units            |-> Num(1),
      homePos          |-> zeroPosition,
      secondPos        |-> zeroPosition,
      curPos           |-> zeroPosition,
      curCoordSys      |-> 0,
      coordSysPos      |-> [i \in 0..(CoordSysCount - 1) |-> zeroPosition],
      workPos          |-> zeroPosition,
      savedWorkPos     |-> zeroPosition,
      useWorkPos       |-> FALSE,
      moveMode         |-> "linearMove",
      absoluteMode     |-> TRUE,
      absoluteArcMode  |-> FALSE,
      arcPlane         |-> "XYPlane",
      spindleOn        |-> FALSE,
      spindleSpeed     |-> Num(0),
      spindleClockwise |-> TRUE,
      numParams        |-> [k \in StoreParams |-> Undef] ]

-----------------------------------------------------------------------------
(* parameters.go: the reserved numeric parameters.                         *)

InCoordSysRange(num) ==
    num >= coordSysParam /\ num < coordSysParam * coordSysParamStep * 9

\* as getCoordSysParam, but returning the stored millimetres whatever the
\* active units are
getCoordSysParamInMillimetres(e, num0) ==
    LET num == num0 - coordSysParam
        coordSys == num \div coordSysParamStep
        axis == num % coordSysParamStep
    IN  IF axis \in {0, 1, 2} /\ coordSys >= CoordSysCount
        THEN [val |-> Num(0), ok |-> FALSE, crash |-> TRUE]
        ELSE [val |-> CASE axis = 0 -> e.coordSysPos[coordSys].X
                        [] axis = 1 -> e.coordSysPos[coordSys].Y
                        [] axis = 2 -> e.coordSysPos[coordSys].Z
                        [] OTHER -> Num(0),
              ok |-> TRUE, crash |-> FALSE]

\* getCoordSysParam: crash stands for Go's index-out-of-range panic
getCoordSysParam(e, num0) ==
    LET num == num0 - coordSysParam
        coordSys == num \div coordSysParamStep
        axis == num % coordSysParamStep
    IN  IF axis \in {0, 1, 2} /\ coordSys >= CoordSysCount
        THEN [val |-> Num(0), ok |-> FALSE, crash |-> TRUE]
        ELSE [val |-> CASE axis = 0 -> RDiv(e.coordSysPos[coordSys].X, e.units)
                        [] axis = 1 -> RDiv(e.coordSysPos[coordSys].Y, e.units)
                        [] axis = 2 -> RDiv(e.coordSysPos[coordSys].Z, e.units)
                        [] OTHER -> Num(0),
              ok |-> TRUE, crash |-> FALSE]

setCoordSysParam(e, num0, val) ==
    LET num == num0 - coordSysParam
        coordSys == num \div coordSysParamStep
        axis == num % coordSysParamStep
        v == RMul(val, e.units)
    IN  IF axis \in {0, 1, 2} /\ coordSys >= CoordSysCount
        THEN [eng |-> e, err |-> NoErr, crash |-> TRUE]
        ELSE [eng |-> CASE axis = 0 -> [e EXCEPT !.coordSysPos[coordSys].X = v]
                        [] axis = 1 -> [e EXCEPT !.coordSysPos[coordSys].Y = v]
                        [] axis = 2 -> [e EXCEPT !.coordSysPos[coordSys].Z = v]
                        [] OTHER -> e,
              err |-> NoErr, crash |-> FALSE]

Found(v) == [val |-> v, ok |-> TRUE, crash |-> FALSE]

getNumParam(e, num) ==
    CASE num = homePosXParam -> Found(RDiv(e.homePos.X, e.units))
      [] num = homePosYParam -> Found(RDiv(e.homePos.Y, e.units))
      [] num = homePosZParam -> Found(RDiv(e.homePos.Z, e.units))
      [] num = secondPosXParam -> Found(RDiv(e.secondPos.X, e.units))
      [] num = secondPosYParam -> Found(RDiv(e.secondPos.Y, e.units))
      [] num = secondPosZParam -> Found(RDiv(e.secondPos.Z, e.units))
      [] num = workPosEnabled -> Found(IF e.useWorkPos THEN Num(1) ELSE Num(0))
      [] num = workPosXParam -> Found(RDiv(e.workPos.X, e.units))
      [] num = workPosYParam -> Found(RDiv(e.workPos.Y, e.units))
      [] num = workPosZParam -> Found(RDiv(e.workPos.Z, e.units))
      [] num = curCoordSysParam -> Found(Num(e.curCoordSys + 1))
      [] OTHER ->
           IF InCoordSysRange(num) THEN getCoordSysParam(e, num)
           ELSE IF num \in StoreParams /\ e.numParams[num] # Undef
                THEN Found(e.numParams[num])
                ELSE [val |-> Num(0), ok |-> FALSE, crash |-> FALSE]

Stored(e) == [eng |-> e, err |-> NoErr, crash |-> FALSE]

\* as setCurCoordSys, but without the range check
setCurCoordSysUnchecked(e, n) ==
    IF ~n.ok
    THEN [eng |-> e, err |-> "expected an integer between 1 and 9", crash |-> FALSE]
    ELSE Stored([e EXCEPT !.curCoordSys = n.int - 1])

\* setNumParam, case curCoordSysParam: n is val.AsInteger()
setCurCoordSys(e, n) ==
    IF ~n.ok \/ n.int < 1 \/ n.int > 9
    THEN [eng |-> e, err |-> "expected an integer between 1 and 9", crash |-> FALSE]
    ELSE Stored([e EXCEPT !.curCoordSys = n.int - 1])

setNumParam(e, num, val) ==
    CASE num = homePosXParam -> Stored([e EXCEPT !.homePos.X = RMul(val, e.units)])
      [] num = homePosYParam -> Stored([e EXCEPT !.homePos.Y = RMul(val, e.units)])
      [] num = homePosZParam -> Stored([e EXCEPT !.homePos.Z = RMul(val, e.units)])
      [] num = secondPosXParam -> Stored([e EXCEPT !.secondPos.X = RMul(val, e.units)])
      [] num = secondPosYParam -> Stored([e EXCEPT !.secondPos.Y = RMul(val, e.units)])
      [] num = secondPosZParam -> Stored([e EXCEPT !.secondPos.Z = RMul(val, e.units)])
      [] num = workPosEnabled ->
           Stored([e EXCEPT !.useWorkPos = ~NumberEqual(val, Num(0))])
      [] num = workPosXParam -> Stored([e EXCEPT !.workPos.X = RMul(val, e.units)])
      [] num = workPosYParam -> Stored([e EXCEPT !.workPos.Y = RMul(val, e.units)])
      [] num = workPosZParam -> Stored([e EXCEPT !.workPos.Z = RMul(val, e.units)])
      [] num = curCoordSysParam -> setCurCoordSys(e, AsInteger(val))
      [] OTHER ->
           IF InCoordSysRange(num) THEN setCoordSysParam(e, num, val)
           ELSE Stored([e EXCEPT !.numParams[num] = val])

-----------------------------------------------------------------------------
(* Expression trees and their evaluation.                                  *)

ENum(v) == [t |-> "num", v |-> v]
EParam(refs, e) == [t |-> "param", refs |-> refs, e |-> e]
EUnary(op, e) == [t |-> "unary", op |-> op, e |-> e]
EBinary(op, l, r) == [t |-> "binary", op |-> op, l |-> l, r |-> r]
ERef(k) == EParam(1, ENum(Num(k)))
EStr == [t |-> "str"]

\* a Value that is a String: a triple, so that it is no Number
StringValue == <<0, 1, 1>>

\* Value.AsNumber succeeds
IsNumber(v) == Len(v) = 2

Val(v) == [st |-> "ok", v |-> v]
Fail(st) == [st |-> st, v |-> Num(0)]

logicNumber(n) == IF n = Num(0) THEN Num(0) ELSE Num(1)
logicBool(b) == IF b THEN Num(1) ELSE Num(0)

\* as shortCircuits, but the right operand is always evaluated
shortCircuitsNever(op, n) == FALSE

\* binary.evaluate, andOp and orOp: the left operand, n, decides the result
\* and the right operand is not evaluated
shortCircuits(op, n) == (op = "and" /\ n = Num(0)) \/ (op = "or" /\ n # Num(0))

\* the loop of param.evaluate over a Number value
RECURSIVE deref(_, _, _)
deref(e, num, refs) ==
    IF refs = 0 THEN Val(num)
    ELSE LET n == AsInteger(num)
         IN  IF ~n.ok \/ n.int < 1
             THEN Fail("number parameter must be a positive integer")
             ELSE LET g == getNumParam(e, n.int)
                  IN  IF g.crash THEN Fail("crash")
                      ELSE IF ~g.ok THEN Fail("global number parameter not found")
                      ELSE deref(e, g.val, refs - 1)

\* expression.evaluate for Number-valued trees; st is "ok", an error message,
\* or "crash" for a runtime panic
RECURSIVE Eval(_, _)
Eval(x, e) ==
    CASE x.t = "num" -> Val(x.v)
      [] x.t = "str" -> Val(StringValue)
      [] x.t = "param" ->
           LET v == Eval(x.e, e)
           IN  IF v.st # "ok" THEN v ELSE deref(e, v.v, x.refs)
      [] x.t = "unary" ->
           LET v == Eval(x.e, e)
           IN  IF v.st # "ok" THEN v
               ELSE CASE x.op = "negate" -> Val(RNeg(v.v))
                      [] x.op = "not" -> Val(IF v.v = Num(0) THEN Num(1) ELSE Num(0))
                      [] OTHER -> v
      [] x.t = "binary" ->
           LET l == Eval(x.l, e)
           IN  IF l.st # "ok" THEN l
               ELSE IF shortCircuits(x.op, l.v) THEN Val(logicBool(x.op = "or"))
               ELSE LET r == Eval(x.r, e)
                    IN  IF r.st # "ok" THEN r
                        ELSE CASE x.op \in {"and", "or"} -> Val(logicNumber(r.v))
                               [] x.op = "equal" -> Val(logicBool(l.v = r.v))
                               [] x.op = "notEqual" -> Val(logicBool(l.v # r.v))
                               [] x.op = "greaterThan" -> Val(logicBool(RLt(r.v, l.v)))
                               [] x.op = "greaterEqual" -> Val(logicBool(RLe(r.v, l.v)))
                               [] x.op = "lessThan" -> Val(logicBool(RLt(l.v, r.v)))
                               [] x.op = "lessEqual" -> Val(logicBool(RLe(l.v, r.v)))
                               [] x.op = "subtract" -> Val(RSub(l.v, r.v))
                               [] x.op = "add" -> Val(RAdd(l.v, r.v))
                               [] x.op = "multiply" -> Val(RMul(l.v, r.v))
                               [] OTHER -> Fail("unsupported operator")

-----------------------------------------------------------------------------
(* engine.go: codes, arguments and the Machine collaborator.               *)

Code(letter, v) == [Letter |-> letter, Value |-> v]

ArgLetters == {"F", "I", "J", "K", "L", "P", "R", "X", "Y", "Z"}

\* A handler result: the engine, the codes left on the line, the Machine
\* calls it issued, and st: "ok", "return" (Evaluate returns nil), an error
\* message (Evaluate returns that error) or "crash" (a Go panic).
Res(e, cs, cl, st) == [eng |-> e, codes |-> cs, calls |-> cl, st |-> st]

\* The Machine's answers are inputs: failAt is the number, within one
\* dispatch, of the Machine call that returns an error (0: none does), and
\* consume is the count of codes HandleUnknown takes from the line.
MachineError == "machine error"
CallSt(cl, mach) == IF Len(cl) = mach.failAt THEN MachineError ELSE "ok"

\* as parseArgsLoop, but accepting a letter that was already given
RECURSIVE parseArgsLoopWithDuplicates(_, _, _)
parseArgsLoopWithDuplicates(cs, allowed, args) ==
    IF cs = <<>> THEN [args |-> args, codes |-> cs, err |-> NoErr]
    ELSE LET code == Head(cs)
         IN  IF code.Letter \notin ArgLetters
             THEN [args |-> args, codes |-> cs, err |-> NoErr]
             ELSE IF code.Letter \notin allowed
             THEN [args |-> <<>>, codes |-> <<>>, err |-> "arg not allowed"]
             ELSE IF ~IsNumber(code.Value)
             THEN [args |-> <<>>, codes |-> <<>>, err |-> "expected a number"]
             ELSE parseArgsLoopWithDuplicates(Tail(cs), allowed, Append(args, code))

RECURSIVE parseArgsLoop(_, _, _)
parseArgsLoop(cs, allowed, args) ==
    IF cs = <<>> THEN [args |-> args, codes |-> cs, err |-> NoErr]
    ELSE LET code == Head(cs)
         IN  IF code.Letter \notin ArgLetters
             THEN [args |-> args, codes |-> cs, err |-> NoErr]
             ELSE IF code.Letter \notin allowed
             THEN [args |-> <<>>, codes |-> <<>>, err |-> "arg not allowed"]
             ELSE IF \E i \in 1..Len(args) : args[i].Letter = code.Letter
             THEN [args |-> <<>>, codes |-> <<>>, err |-> "duplicate arg specified"]
             ELSE IF ~IsNumber(code.Value)
             THEN [args |-> <<>>, codes |-> <<>>, err |-> "expected a number"]
             ELSE parseArgsLoop(Tail(cs), allowed, Append(args, code))

parseArgs(cs, allowed) == parseArgsLoop(cs, allowed, <<>>)

hasArg(args, letter) == \E i \in 1..Len(args) : args[i].Letter = letter

\* the number given for a letter that hasArg
ArgNum(args, letter) ==
    LET i == CHOOSE j \in 1..Len(args) : args[j].Letter = letter
    IN  args[i].Value

requireArg(args, letter) ==
    IF hasArg(args, letter)
    THEN [num |-> ArgNum(args, letter), err |-> NoErr]
    ELSE [num |-> Num(0), err |-> "missing require arg"]

toMachineX(e, x, absolute) ==
    IF absolute
    THEN RSub(RSub(x, e.coordSysPos[e.curCoordSys].X), e.workPos.X)
    ELSE RAdd(e.curPos.X, x)

toMachineY(e, y, absolute) ==
    IF absolute
    THEN RSub(RSub(y, e.coordSysPos[e.curCoordSys].Y), e.workPos.Y)
    ELSE RAdd(e.curPos.Y, y)

toMachineZ(e, z, absolute) ==
    IF absolute
    THEN RSub(RSub(z, e.coordSysPos[e.curCoordSys].Z), e.workPos.Z)
    ELSE RAdd(e.curPos.Z, z)

\* as MoveCall, but committing the position although the call failed
MoveCallCommitting(e, cs, cl, cmd, pos, mach) ==
    IF pos = e.curPos THEN Res(e, cs, cl, "ok")
    ELSE LET cl2 == Append(cl, <<cmd, pos>>)
         IN  IF CallSt(cl2, mach) # "ok"
             THEN Res([e EXCEPT !.curPos = pos], <<>>, cl2, MachineError)
             ELSE Res([e EXCEPT !.curPos = pos], cs, cl2, "ok")

\* rapidTo / linearTo after the calls cl already issued by the handler
MoveCall(e, cs, cl, cmd, pos, mach) ==
    IF pos = e.curPos THEN Res(e, cs, cl, "ok")
    ELSE LET cl2 == Append(cl, <<cmd, pos>>)
         IN  IF CallSt(cl2, mach) # "ok" THEN Res(e, <<>>, cl2, MachineError)
             ELSE Res([e EXCEPT !.curPos = pos], cs, cl2, "ok")

rapidTo(e, cs, cl, pos, mach) == MoveCall(e, cs, cl, "rapidTo", pos, mach)
linearTo(e, cs, cl, pos, mach) == MoveCall(e, cs, cl, "linearTo", pos, mach)

\* the target of one axis word of moveTo
MoveAxis(e, args, letter, cur, toMachine, useMach) ==
    IF ~hasArg(args, letter) THEN cur
    ELSE LET a == RMul(ArgNum(args, letter), e.units)
         IN  IF useMach
             THEN IF e.absoluteMode THEN a ELSE RAdd(cur, a)
             ELSE toMachine

\* as setFeedCalls, but issuing no call in rapid mode
setFeedCallsUnlessRapid(e, args) ==
    IF hasArg(args, "F") /\ e.moveMode # "rapidMove"
    THEN <<<<"setFeed", RMul(ArgNum(args, "F"), e.units)>>>>
    ELSE <<>>

\* the setFeed call of an F word, as the list of calls issued so far
setFeedCalls(e, args) ==
    IF hasArg(args, "F")
    THEN <<<<"setFeed", RMul(ArgNum(args, "F"), e.units)>>>>
    ELSE <<>>

\* the position the X, Y and Z words name through toMachineX/Y/Z; an axis
\* without a word stays where it is
wordPos(e, args, absolute) ==
    Pos(IF hasArg(args, "X")
        THEN toMachineX(e, RMul(ArgNum(args, "X"), e.units), absolute)
        ELSE e.curPos.X,
        IF hasArg(args, "Y")
        THEN toMachineY(e, RMul(ArgNum(args, "Y"), e.units), absolute)
        ELSE e.curPos.Y,
        IF hasArg(args, "Z")
        THEN toMachineZ(e, RMul(ArgNum(args, "Z"), e.units), absolute)
        ELSE e.curPos.Z)

\* the target of moveTo: work is wordPos, used unless G53 is in force
moveToPos(e, args, work, useMach) ==
    Pos(MoveAxis(e, args, "X", e.curPos.X, work.X, useMach),
        MoveAxis(e, args, "Y", e.curPos.Y, work.Y, useMach),
        MoveAxis(e, args, "Z", e.curPos.Z, work.Z, useMach))

\* moveTo once the arguments are parsed: the feed, then the move
moveToParsed(e, pa, cl, pos, mach) ==
    IF pa.err # NoErr THEN Res(e, <<>>, <<>>, pa.err)
    ELSE IF cl # <<>> /\ CallSt(cl, mach) # "ok"
    THEN Res(e, <<>>, cl, MachineError)
    ELSE CASE e.moveMode = "rapidMove" -> rapidTo(e, pa.codes, cl, pos, mach)
           [] e.moveMode = "linearMove" -> linearTo(e, pa.codes, cl, pos, mach)
           [] OTHER -> Res(e, <<>>, cl, "crash")

moveToArgs(e, pa, useMach, mach) ==
    moveToParsed(e, pa, setFeedCalls(e, pa.args),
                 moveToPos(e, pa.args, wordPos(e, pa.args, e.absoluteMode), useMach),
                 mach)

moveTo(e, cs0, useMach, mach) ==
    moveToArgs(e, parseArgs(cs0, {"F", "X", "Y", "Z"}), useMach, mach)

\* the second rapidTo of moveToPredefined, made when the first succeeded
thenRapidTo(r1, cs, pos, mach) ==
    IF r1.st # "ok" THEN r1 ELSE rapidTo(r1.eng, cs, r1.calls, pos, mach)

\* as moveToPredefinedArgs, but ending at the predefined position on every
\* axis
moveToPredefinedArgsAllAxes(e, pa, pos, mach) ==
    IF pa.err # NoErr THEN Res(e, <<>>, <<>>, pa.err)
    ELSE IF Len(pa.args) = 0 THEN rapidTo(e, pa.codes, <<>>, pos, mach)
    ELSE thenRapidTo(
            rapidTo(e, pa.codes, <<>>, wordPos(e, pa.args, e.absoluteMode), mach),
            pa.codes, pos, mach)

moveToPredefinedArgs(e, pa, pos, mach) ==
    IF pa.err # NoErr THEN Res(e, <<>>, <<>>, pa.err)
    ELSE IF Len(pa.args) = 0 THEN rapidTo(e, pa.codes, <<>>, pos, mach)
    ELSE thenRapidTo(
            rapidTo(e, pa.codes, <<>>, wordPos(e, pa.args, e.absoluteMode), mach),
            pa.codes,
            Pos(IF hasArg(pa.args, "X") THEN pos.X ELSE e.curPos.X,
                IF hasArg(pa.args, "Y") THEN pos.Y ELSE e.curPos.Y,
                IF hasArg(pa.args, "Z") THEN pos.Z ELSE e.curPos.Z),
            mach)

moveToPredefined(e, cs0, pos, mach) ==
    moveToPredefinedArgs(e, parseArgs(cs0, {"X", "Y", "Z"}), pos, mach)

\* the coordinate system a P word names, or -1
CoordSysOfP(e, p) ==
    IF NumberEqual(p, Num(0)) THEN e.curCoordSys
    ELSE IF \E k \in 1..9 : NumberEqual(p, Num(k))
         THEN (CHOOSE k \in 1..9 :
                  NumberEqual(p, Num(k))
                  /\ \A j \in 1..(k - 1) : ~NumberEqual(p, Num(j))) - 1
         ELSE -1

\* as coordSysOffset, but relative to the current position for L2 too
coordSysOffsetRelative(e, args, letter, cur, old, machine) ==
    IF ~hasArg(args, letter) THEN old
    ELSE RSub(RMul(ArgNum(args, letter), e.units), cur)

\* the offset an axis word gives a coordinate system: the value itself for
\* L2, the value less the current position for L20
coordSysOffset(e, args, letter, cur, old, machine) ==
    IF ~hasArg(args, letter) THEN old
    ELSE IF machine THEN RMul(ArgNum(args, letter), e.units)
    ELSE RSub(RMul(ArgNum(args, letter), e.units), cur)

\* setCoordinateSystemPosition once P is resolved to coordSys
setCoordSysOffsets(e, args, machine, coordSys) ==
    IF coordSys = -1
    THEN [eng |-> e, err |-> "expected a coordinate system"]
    ELSE [eng |-> [e EXCEPT !.coordSysPos[coordSys] =
                      Pos(coordSysOffset(e, args, "X", e.curPos.X, @.X, machine),
                          coordSysOffset(e, args, "Y", e.curPos.Y, @.Y, machine),
                          coordSysOffset(e, args, "Z", e.curPos.Z, @.Z, machine))],
          err |-> NoErr]

setCoordSysP(e, args, machine, p) ==
    IF p.err # NoErr THEN [eng |-> e, err |-> p.err]
    ELSE setCoordSysOffsets(e, args, machine, CoordSysOfP(e, p.num))

setCoordinateSystemPosition(e, args, machine) ==
    setCoordSysP(e, args, machine, requireArg(args, "P"))

\* a handler's return: its error, or the codes left on the line
ResOf(r, cs) ==
    IF r.err # NoErr THEN Res(r.eng, <<>>, <<>>, r.err)
    ELSE Res(r.eng, cs, <<>>, "ok")

modifyPositionsL(e, pa, l) ==
    IF pa.err # NoErr THEN Res(e, <<>>, <<>>, pa.err)
    ELSE IF l.err # NoErr THEN Res(e, <<>>, <<>>, l.err)
    ELSE IF NumberEqual(l.num, Num(2)) \/ NumberEqual(l.num, Num(20))
    THEN ResOf(setCoordinateSystemPosition(e, pa.args, NumberEqual(l.num, Num(2))),
               pa.codes)
    ELSE Res(e, <<>>, <<>>, "unexpected L value to G10")

modifyPositionsArgs(e, pa) == modifyPositionsL(e, pa, requireArg(pa.args, "L"))

modifyPositions(e, cs0) ==
    modifyPositionsArgs(e, parseArgs(cs0, {"L", "P", "X", "Y", "Z"}))

\* as workOffset, but taking the machine is at the origin
workOffsetFromOrigin(args, letter, old, target, cur) ==
    IF hasArg(args, letter) THEN RAdd(old, target) ELSE old

\* the work offset that makes an axis word name the current position
workOffset(args, letter, old, target, cur) ==
    IF hasArg(args, letter) THEN RAdd(old, RSub(target, cur)) ELSE old

setWorkPositionTo(e, pa, wp) ==
    IF pa.err # NoErr THEN Res(e, <<>>, <<>>, pa.err)
    ELSE IF Len(pa.args) = 0
    THEN Res(e, <<>>, <<>>, "expected at least one X, Y, or Z arg")
    ELSE Res([e EXCEPT !.workPos = wp, !.savedWorkPos = wp], pa.codes, <<>>, "ok")

setWorkPositionAt(e, pa, target) ==
    setWorkPositionTo(e, pa,
        Pos(workOffset(pa.args, "X", e.workPos.X, target.X, e.curPos.X),
            workOffset(pa.args, "Y", e.workPos.Y, target.Y, e.curPos.Y),
            workOffset(pa.args, "Z", e.workPos.Z, target.Z, e.curPos.Z)))

setWorkPositionArgs(e, pa) == setWorkPositionAt(e, pa, wordPos(e, pa.args, TRUE))

setWorkPosition(e, cs0) == setWorkPositionArgs(e, parseArgs(cs0, {"X", "Y", "Z"}))

\* as endProgram, but leaving the coordinate system selected
endProgramKeepingCoordSys(e, cl, mach) ==
    LET e1 == [e EXCEPT !.moveMode = "linearMove",
                        !.arcPlane = "XYPlane", !.absoluteMode = TRUE]
    IN  IF e.spindleOn
        THEN LET cl2 == Append(cl, <<"spindleOff", 0>>)
             IN  Res([e1 EXCEPT !.spindleOn = FALSE], <<>>, cl2,
                     IF CallSt(cl2, mach) # "ok" THEN MachineError ELSE "return")
        ELSE Res(e1, <<>>, cl, "return")

\* as endProgram, but turning the spindle off whether it is on or not
endProgramAlwaysSpindleOff(e, cl, mach) ==
    LET e1 == [e EXCEPT !.moveMode = "linearMove", !.curCoordSys = 0,
                        !.arcPlane = "XYPlane", !.absoluteMode = TRUE]
        cl2 == Append(cl, <<"spindleOff", 0>>)
    IN  Res([e1 EXCEPT !.spindleOn = FALSE], <<>>, cl2,
            IF CallSt(cl2, mach) # "ok" THEN MachineError ELSE "return")

\* endProgram, and Evaluate's return of its result
endProgram(e, cl, mach) ==
    LET e1 == [e EXCEPT !.moveMode = "linearMove", !.curCoordSys = 0,
                        !.arcPlane = "XYPlane", !.absoluteMode = TRUE]
    IN  IF e.spindleOn
        THEN LET cl2 == Append(cl, <<"spindleOff", 0>>)
             IN  Res([e1 EXCEPT !.spindleOn = FALSE], <<>>, cl2,
                     IF CallSt(cl2, mach) # "ok" THEN MachineError ELSE "return")
        ELSE Res(e1, <<>>, cl, "return")

\* engine.arcTo, abridged: the argument checks and the final linearTo(endPos)
\* are modelled; the centre/radius geometry and the interpolated points of
\* arc.go's arcTo are not.
arcToParsed(e, pa, cl, endPos, useMach, mach) ==
    IF useMach THEN Res(e, <<>>, <<>>, "G53 not allowed with arcs")
    ELSE IF pa.err # NoErr THEN Res(e, <<>>, <<>>, pa.err)
    ELSE IF cl # <<>> /\ CallSt(cl, mach) # "ok"
    THEN Res(e, <<>>, cl, MachineError)
    ELSE IF e.moveMode \notin {"clockwiseArcMove", "counterClockwiseArcMove"}
    THEN Res(e, <<>>, cl, "crash")
    ELSE linearTo(e, pa.codes, cl, endPos, mach)

arcToArgs(e, pa, useMach, mach) ==
    arcToParsed(e, pa, setFeedCalls(e, pa.args),
                wordPos(e, pa.args, e.absoluteMode), useMach, mach)

arcTo(e, cs0, useMach, mach) ==
    arcToArgs(e, parseArgs(cs0, {"F", "I", "J", "K", "P", "R", "X", "Y", "Z"}),
              useMach, mach)

\* the engine after the hook has run: setCurrentPosition, when the hook
\* called it
hookMoved(e, mach) ==
    IF mach.setCurPos = <<>> THEN e ELSE [e EXCEPT !.curPos = mach.setCurPos[1]]

\* as handleUnknown, but continuing with all the codes that were left
handleUnknownKeepingRest(e, code, rest, mach) ==
    LET cl == <<<<"handleUnknown", <<code, rest>>>>>>
    IN  IF CallSt(cl, mach) # "ok" THEN Res(e, <<>>, cl, MachineError)
        ELSE Res(hookMoved(e, mach), rest, cl, "ok")

\* Machine.HandleUnknown: it is handed the code and the codes left on the
\* line, takes mach.consume of them and returns the others; it calls
\* setCurrentPosition when mach.setCurPos holds a position.  A hook that
\* returns an error is taken not to have called setCurrentPosition.
handleUnknown(e, code, rest, mach) ==
    LET cl == <<<<"handleUnknown", <<code, rest>>>>>>
        k == IF mach.consume < Len(rest) THEN mach.consume ELSE Len(rest)
    IN  IF CallSt(cl, mach) # "ok" THEN Res(e, <<>>, cl, MachineError)
        ELSE Res(hookMoved(e, mach), SubSeq(rest, k + 1, Len(rest)), cl, "ok")

\* one Machine call that changes no engine state beyond e
SimpleCall(e, rest, call, mach) ==
    LET cl == <<call>>
    IN  IF CallSt(cl, mach) # "ok" THEN Res(e, <<>>, cl, MachineError)
        ELSE Res(e, rest, cl, "ok")

GIs(num, n, d) == NumberEqual(num, Rat(n, d))

\* as zeroWorkPosition, but discarding only the saved work offset
zeroWorkPositionSavedOnly(e) == [e EXCEPT !.savedWorkPos = zeroPosition]

\* G92.1: zero work position
zeroWorkPosition(e) ==
    [e EXCEPT !.workPos = zeroPosition, !.savedWorkPos = zeroPosition]

\* as saveWorkPosition, but zeroing the work offset before it is saved
saveWorkPositionAfterZero(e) ==
    [e EXCEPT !.savedWorkPos = zeroPosition, !.workPos = zeroPosition]

\* G92.2: save work position, then zero
saveWorkPosition(e) ==
    [e EXCEPT !.savedWorkPos = e.workPos, !.workPos = zeroPosition]

\* G92.3: restore saved work position
restoreWorkPosition(e) == [e EXCEPT !.workPos = e.savedWorkPos]

\* Evaluate, case 'G'
evalG(e, num, rest, useMach, mach) ==
    CASE GIs(num, 0, 1) ->
           moveTo([e EXCEPT !.moveMode = "rapidMove"], rest, useMach, mach)
      [] GIs(num, 1, 1) ->
           moveTo([e EXCEPT !.moveMode = "linearMove"], rest, useMach, mach)
      [] GIs(num, 2, 1) ->
           arcTo([e EXCEPT !.moveMode = "clockwiseArcMove"], rest, useMach, mach)
      [] GIs(num, 3, 1) ->
           arcTo([e EXCEPT !.moveMode = "counterClockwiseArcMove"], rest, useMach, mach)
      [] GIs(num, 10, 1) -> modifyPositions(e, rest)
      [] GIs(num, 17, 1) -> Res([e EXCEPT !.arcPlane = "XYPlane"], rest, <<>>, "ok")
      [] GIs(num, 18, 1) -> Res([e EXCEPT !.arcPlane = "ZXPlane"], rest, <<>>, "ok")
      [] GIs(num, 19, 1) -> Res([e EXCEPT !.arcPlane = "YZPlane"], rest, <<>>, "ok")
      [] GIs(num, 20, 1) -> Res([e EXCEPT !.units = mmPerInch], rest, <<>>, "ok")
      [] GIs(num, 21, 1) -> Res([e EXCEPT !.units = Num(1)], rest, <<>>, "ok")
      [] GIs(num, 28, 1) -> moveToPredefined(e, rest, e.homePos, mach)
      [] GIs(num, 281, 10) -> Res([e EXCEPT !.homePos = e.curPos], rest, <<>>, "ok")
      [] GIs(num, 30, 1) -> moveToPredefined(e, rest, e.secondPos, mach)
      [] GIs(num, 301, 10) -> Res([e EXCEPT !.secondPos = e.curPos], rest, <<>>, "ok")
      [] GIs(num, 54, 1) -> Res([e EXCEPT !.curCoordSys = 0], rest, <<>>, "ok")
      [] GIs(num, 55, 1) -> Res([e EXCEPT !.curCoordSys = 1], rest, <<>>, "ok")
      [] GIs(num, 56, 1) -> Res([e EXCEPT !.curCoordSys = 2], rest, <<>>, "ok")
      [] GIs(num, 57, 1) -> Res([e EXCEPT !.curCoordSys = 3], rest, <<>>, "ok")
      [] GIs(num, 58, 1) -> Res([e EXCEPT !.curCoordSys = 4], rest, <<>>, "ok")
      [] GIs(num, 59, 1) -> Res([e EXCEPT !.curCoordSys = 5], rest, <<>>, "ok")
      [] GIs(num, 591, 10) -> Res([e EXCEPT !.curCoordSys = 6], rest, <<>>, "ok")
      [] GIs(num, 592, 10) -> Res([e EXCEPT !.curCoordSys = 7], rest, <<>>, "ok")
      [] GIs(num, 593, 10) -> Res([e EXCEPT !.curCoordSys = 8], rest, <<>>, "ok")
      [] GIs(num, 90, 1) -> Res([e EXCEPT !.absoluteMode = TRUE], rest, <<>>, "ok")
      [] GIs(num, 901, 10) -> Res([e EXCEPT !.absoluteArcMode = TRUE], rest, <<>>, "ok")
      [] GIs(num, 91, 1) -> Res([e EXCEPT !.absoluteMode = FALSE], rest, <<>>, "ok")
      [] GIs(num, 911, 10) -> Res([e EXCEPT !.absoluteArcMode = FALSE], rest, <<>>, "ok")
      [] GIs(num, 92, 1) -> setWorkPosition(e, rest)
      [] GIs(num, 921, 10) -> Res(zeroWorkPosition(e), rest, <<>>, "ok")
      [] GIs(num, 922, 10) -> Res(saveWorkPosition(e), rest, <<>>, "ok")
      [] GIs(num, 923, 10) -> Res(restoreWorkPosition(e), rest, <<>>, "ok")
      [] OTHER -> handleUnknown(e, Code("G", num), rest, mach)

\* as setSpindleSpeed, but driving the machine with the spindle off too
setSpindleSpeedAlways(e, num, rest, mach) ==
    IF RLt(num, Num(0))
    THEN Res(e, <<>>, <<>>, "spindle speed must not be negative")
    ELSE SimpleCall([e EXCEPT !.spindleSpeed = num], rest,
                    <<"setSpindle", <<num, e.spindleClockwise>>>>, mach)

\* Evaluate, case 'S'
setSpindleSpeed(e, num, rest, mach) ==
    IF RLt(num, Num(0))
    THEN Res(e, <<>>, <<>>, "spindle speed must not be negative")
    ELSE IF e.spindleOn
    THEN SimpleCall([e EXCEPT !.spindleSpeed = num], rest,
                    <<"setSpindle", <<num, e.spindleClockwise>>>>, mach)
    ELSE Res([e EXCEPT !.spindleSpeed = num], rest, <<>>, "ok")

\* Evaluate, case 'M'
evalM(e, num, rest, mach) ==
    CASE GIs(num, 2, 1) \/ GIs(num, 30, 1) -> endProgram(e, <<>>, mach)
      [] GIs(num, 3, 1) ->
           SimpleCall([e EXCEPT !.spindleOn = TRUE, !.spindleClockwise = TRUE],
                      rest, <<"setSpindle", <<e.spindleSpeed, TRUE>>>>, mach)
      [] GIs(num, 4, 1) ->
           SimpleCall([e EXCEPT !.spindleOn = TRUE, !.spindleClockwise = FALSE],
                      rest, <<"setSpindle", <<e.spindleSpeed, FALSE>>>>, mach)
      [] GIs(num, 5, 1) ->
           SimpleCall([e EXCEPT !.spindleOn = FALSE], rest, <<"spindleOff", 0>>, mach)
      [] OTHER -> handleUnknown(e, Code("M", num), rest, mach)

\* G53 sets the flag of the Evaluate loop; the other codes leave it alone
G53Flag(num, useMach) == useMach \/ GIs(num, 53, 1)

\* case 'T' of Evaluate: the tool number must be a non-negative integer
selectTool(e, rest, tool, mach) ==
    IF ~tool.ok \/ tool.int < 0
    THEN Res(e, <<>>, <<>>, "expected a non-negative integer")
    ELSE SimpleCall(e, rest, <<"selectTool", tool.int>>, mach)

\* as takesArcWord, but in every move mode
takesArcWordAlways(e) == TRUE

\* Evaluate, case 'I', 'J', 'K', 'P', 'R': the move modes in which the word
\* starts an arc
takesArcWord(e) == e.moveMode \in {"clockwiseArcMove", "counterClockwiseArcMove"}

\* the switch of Evaluate over the letter of the code
evalLetter(e, code, num, cs, rest, useMach, mach) ==
    CASE code.Letter = "G" ->
           IF GIs(num, 53, 1)
           THEN Res(e, rest, <<>>, IF rest = <<>> THEN "parse" ELSE "ok")
           ELSE evalG(e, num, rest, useMach, mach)
      [] code.Letter = "M" -> evalM(e, num, rest, mach)
      [] code.Letter = "F" ->
           IF e.moveMode = "linearMove" THEN moveTo(e, cs, useMach, mach)
           ELSE IF e.moveMode \in {"clockwiseArcMove", "counterClockwiseArcMove"}
           THEN arcTo(e, cs, useMach, mach)
           ELSE Res(e, <<>>, <<>>, "arg not allowed")
      [] code.Letter \in {"I", "J", "K", "P", "R"} ->
           IF takesArcWord(e)
           THEN arcTo(e, cs, useMach, mach)
           ELSE Res(e, <<>>, <<>>, "arg not allowed")
      [] code.Letter = "S" -> setSpindleSpeed(e, num, rest, mach)
      [] code.Letter = "T" -> selectTool(e, rest, AsInteger(num), mach)
      [] code.Letter \in {"X", "Y", "Z"} ->
           IF e.moveMode \in {"rapidMove", "linearMove"}
           THEN moveTo(e, cs, useMach, mach)
           ELSE arcTo(e, cs, useMach, mach)
      [] OTHER -> handleUnknown(e, code, rest, mach)

\* One iteration of Evaluate's loop over the codes of a line: the dispatch
\* of cs[1].  The result is a handler result together with the value of
\* useMachine after it.  G53 as the last code of its line asks for the next
\* line (st = "parse").
evalCode(e, cs, useMach, mach) ==
    IF ~IsNumber(Head(cs).Value)
    THEN Res(e, <<>>, <<>>, "expected a number") @@ [useMachine |-> useMach]
    ELSE evalLetter(e, Head(cs), Head(cs).Value, cs, Tail(cs), useMach, mach)
         @@ [useMachine |-> IF Head(cs).Letter = "G"
                            THEN G53Flag(Head(cs).Value, useMach) ELSE useMach]

-----------------------------------------------------------------------------
(* The parser: tokens, actions and their evaluation.                       *)

TCode(letter, expr) == [k |-> "code", letter |-> letter, expr |-> expr]
TAssign(num, op, expr) == [k |-> "assign", num |-> num, op |-> op, expr |-> expr]
TNL == [k |-> "nl"]
TWhile(test) == [k |-> "while", test |-> test]    \* WHILE <expr> DO <newline>
TEnd == [k |-> "end"]                             \* END <newline>
\* IF <expr> THEN <assignment> (ELSEIF <expr> THEN <assignment>)*
\* [ELSE <assignment>] <newline>; else is <<>> or one assignment
TIf(test, then, elseifTests, elseifAssigns, else) ==
    [k |-> "if", ifTest |-> test, thenAssign |-> then, elseifTests |-> elseifTests,
     elseifAssigns |-> elseifAssigns, elseAssign |-> else]
TN(num) == [k |-> "n", num |-> num]               \* N<num>
TChecksum == [k |-> "checksum"]                   \* *<nnn>
TComment(cmd, body) == [k |-> "comment", cmd |-> cmd, body |-> body]  \* (cmd,body)
\* ;cmd,body up to the newline, which is the next token
TTail(cmd, body) == [k |-> "tail", cmd |-> cmd, body |-> body]

ACode(letter, expr) == [k |-> "code", letter |-> letter, expr |-> expr]
ANumAssign(num, op, expr) == [k |-> "assign", num |-> num, op |-> op, expr |-> expr]
AEol == [k |-> "eol"]
AWhile(test, actions) == [k |-> "while", test |-> test, actions |-> actions]
AEnd == [k |-> "end"]
AIf(t) == [t EXCEPT !.k = "if"]
AComment(cmd, body) == [k |-> "comment", cmd |-> cmd, body |-> body]
NoAct == [k |-> "none"]

HasBeagleG(f) == "BeagleG" \in f
HasLinuxCNC(f) == "LinuxCNC" \in f

\* what one round of Parser.parse leaves: the action it returns (NoAct when
\* it goes on reading), the line state and the counters, and whether the
\* newline that ended a comment was put back to be read again
PRes(act, ls, pl, vl, st) ==
    [act |-> act, lineState |-> ls, physicalLine |-> pl, virtualLine |-> vl,
     st |-> st, unread |-> FALSE]

\* Parser.where: the line an error message is prefixed with
where(pl, vl) == IF pl = vl THEN <<pl>> ELSE <<pl, vl>>

\* as parseLineNumber, but rejecting only a number below the virtual line
parseLineNumberAllowingEqual(num, ls, pl, vl) ==
    IF ls # "beforeLineNum" THEN PRes(NoAct, ls, pl, vl, "N must be first on line")
    ELSE IF num < vl THEN PRes(NoAct, ls, pl, vl, "N invalid")
    ELSE PRes(NoAct, "afterLineNum", pl, num - 1, "ok")

\* Parser.parse on N<num>
parseLineNumber(num, ls, pl, vl) ==
    IF ls # "beforeLineNum" THEN PRes(NoAct, ls, pl, vl, "N must be first on line")
    ELSE IF num <= vl THEN PRes(NoAct, ls, pl, vl, "N invalid")
    ELSE PRes(NoAct, "afterLineNum", pl, num - 1, "ok")

\* Parser.parse on *<nnn>
parseChecksum(ls, pl, vl) == PRes(NoAct, "afterChecksum", pl, vl, "ok")

\* Parser.parseComment with both sinks present: the action of a comment
\* "<cmd>,<body>", NoAct for any other comment
parseComment(cmd, body) ==
    IF cmd \in {"msg", "debug", "print"} THEN AComment(cmd, body) ELSE NoAct

\* Parser.parse on an inline comment ( ... )
parseInlineComment(t, ls, pl, vl, f) ==
    IF HasLinuxCNC(f) THEN PRes(parseComment(t.cmd, t.body), ls, pl, vl, "ok")
    ELSE PRes(NoAct, ls, pl, vl, "ok")

\* Parser.parse on a comment that runs from ; or % to the end of the line:
\* the newline is counted, and put back when the comment is an action
parseTailComment(t, ls, pl, vl, f) ==
    IF HasLinuxCNC(f) /\ parseComment(t.cmd, t.body) # NoAct
    THEN [PRes(parseComment(t.cmd, t.body), "beforeLineNum", pl + 1, vl + 1, "ok")
            EXCEPT !.unread = TRUE]
    ELSE PRes(AEol, "beforeLineNum", pl + 1, vl + 1, "ok")

\* Parser.parse on a code or an assignment
parseCommand(act, ls, pl, vl) ==
    IF ls = "afterChecksum"
    THEN PRes(NoAct, ls, pl, vl, "checksum (*nnn) must be at end of line")
    ELSE PRes(act, "inBody", pl, vl, "ok")

\* Parser.parse on WHILE <expr> DO <newline>, on END <newline> and on
\* IF ... <newline>: wantEndOfLine, or the loop of parseIfBeagleG, reads the
\* newline and leaves the line state and the counters alone
parseKeyword(t, ls, pl, vl, f) ==
    IF ls = "afterChecksum"
    THEN PRes(NoAct, ls, pl, vl, "checksum (*nnn) must be at end of line")
    ELSE IF ls = "inBody"
    THEN PRes(NoAct, ls, pl, vl, "keyword must come first on line")
    ELSE IF ~HasBeagleG(f)
    THEN PRes(NoAct, "inBody", pl, vl, "unexpected keyword")
    ELSE IF t.k = "end" THEN PRes(AEnd, "inBody", pl, vl, "ok")
    ELSE IF t.k = "if" THEN PRes(AIf(t), "inBody", pl, vl, "ok")
    ELSE PRes(NoAct, "inBody", pl, vl, "ok")

\* Parser.parse on one token
parse(t, ls, pl, vl, f) ==
    CASE t.k = "nl" -> PRes(AEol, "beforeLineNum", pl + 1, vl + 1, "ok")
      [] t.k = "assign" -> parseCommand(ANumAssign(t.num, t.op, t.expr), ls, pl, vl)
      [] t.k = "code" -> parseCommand(ACode(t.letter, t.expr), ls, pl, vl)
      [] t.k \in {"while", "end", "if"} -> parseKeyword(t, ls, pl, vl, f)
      [] t.k = "n" -> parseLineNumber(t.num, ls, pl, vl)
      [] t.k = "checksum" -> parseChecksum(ls, pl, vl)
      [] t.k = "comment" -> parseInlineComment(t, ls, pl, vl, f)
      [] t.k = "tail" -> parseTailComment(t, ls, pl, vl, f)

\* the outcome of setNumParam(num, v) with result r, as an action result
assigned(r, num, v) ==
    [eng |-> r.eng,
     st |-> IF r.crash THEN "crash" ELSE IF r.err # NoErr THEN r.err ELSE "ok",
     writes |-> IF r.crash \/ r.err # NoErr THEN <<>>
                ELSE <<[num |-> num, val |-> v]>>]

numAssignmentTo(e, num, v) == assigned(setNumParam(e, num, v), num, v)

\* numAssignment, g being what getNumParam(num) returns for the operators
\* that read the parameter first
numAssignmentWith(e, num, op, val, g) ==
    IF op # "assign" /\ ~g.ok
    THEN [eng |-> e,
          st |-> IF g.crash THEN "crash" ELSE "global number parameter not found",
          writes |-> <<>>]
    ELSE numAssignmentTo(e, num,
            CASE op = "assign" -> val
              [] op \in {"assignPlus", "plusPlus"} -> RAdd(g.val, val)
              [] op \in {"assignMinus", "minusMinus"} -> RSub(g.val, val)
              [] op = "assignTimes" -> RMul(g.val, val)
              [] op = "assignDivide" -> RDiv(g.val, val))

\* numAssignment: the parameter write of an assignment whose right-hand side
\* evaluated to val
numAssignment(e, num, op, val) ==
    numAssignmentWith(e, num, op, val, getNumParam(e, num))

doAssignVal(e, act, v) ==
    IF v.st # "ok" THEN [eng |-> e, st |-> v.st, writes |-> <<>>]
    ELSE numAssignment(e, act.num, act.op, v.v)

\* the body of an assignment action: evaluate the expression, then assign
doAssign(e, act) == doAssignVal(e, act, Eval(act.expr, e))

RECURSIVE runEndFuncs(_, _, _)

\* eolAction.evaluate's loop after the end function with result r ran
afterEndFunc(r, fs, writes) ==
    IF r.st # "ok"
    THEN [eng |-> r.eng, st |-> r.st, writes |-> writes \o r.writes]
    ELSE runEndFuncs(r.eng, fs, writes \o r.writes)

runEndFuncs(e, fs, writes) ==
    IF fs = <<>> THEN [eng |-> e, st |-> "ok", writes |-> writes]
    ELSE afterEndFunc(doAssign(e, Head(fs)), Tail(fs), writes)

\* action.evaluate: p is [eng, codes, endFuncs, stack]
EvRes(e, cs, fs, stk, done, st, writes) ==
    [eng |-> e, codes |-> cs, endFuncs |-> fs, stack |-> stk, done |-> done,
     st |-> st, writes |-> writes]

\* the result of an action that ran the assignment with result r
assignDone(r, p, fs, done) ==
    EvRes(r.eng, p.codes, fs, p.stack, done, r.st, r.writes)

\* as numAssignActionEvaluate, but executing the assignment at once in
\* every dialect
numAssignActionEvaluateImmediate(act, p, f) ==
    assignDone(doAssign(p.eng, act), p, p.endFuncs, FALSE)

\* as numAssignActionEvaluate, but deferring the assignment in every dialect
numAssignActionEvaluateDeferred(act, p, f) ==
    EvRes(p.eng, p.codes, Append(p.endFuncs, act), p.stack, FALSE, "ok", <<>>)

numAssignActionEvaluate(act, p, f) ==
    IF HasLinuxCNC(f)
    THEN EvRes(p.eng, p.codes, Append(p.endFuncs, act), p.stack, FALSE, "ok", <<>>)
    ELSE assignDone(doAssign(p.eng, act), p, p.endFuncs, FALSE)

eolActionEvaluate(p) ==
    assignDone(runEndFuncs(p.eng, p.endFuncs, <<>>), p, <<>>, TRUE)

\* whileActionBeagleG.evaluate once the test evaluated to v: body is what
\* a true test pushes on the execution stack
whileTested(v, body, p) ==
    IF v.st # "ok" THEN EvRes(p.eng, p.codes, p.endFuncs, p.stack, FALSE, v.st, <<>>)
    ELSE IF ~NumberEqual(Num(0), v.v)
    THEN EvRes(p.eng, p.codes, p.endFuncs, <<body>> \o p.stack, FALSE, "ok", <<>>)
    ELSE EvRes(p.eng, p.codes, p.endFuncs, p.stack, FALSE, "ok", <<>>)

\* as whileActionEvaluate, but pushing the body without the loop action
\* at its end
whileActionEvaluateOnce(act, p) ==
    whileTested(Eval(act.test, p.eng), act.actions, p)

whileActionEvaluate(act, p) ==
    whileTested(Eval(act.test, p.eng), Append(act.actions, act), p)

\* ifActionBeagleG.evaluate, the loop over the ELSEIF tests and the ELSE:
\* the assignment that is selected, if any
RECURSIVE elseifSelect(_, _, _, _)
elseifSelect(tests, assigns, else, e) ==
    IF tests = <<>> THEN [st |-> "ok", assign |-> else]
    ELSE LET v == Eval(Head(tests), e)
         IN  IF v.st # "ok" THEN [st |-> v.st, assign |-> <<>>]
             ELSE IF ~RLt(RAbs(v.v), minimumDelta)
             THEN [st |-> "ok", assign |-> <<Head(assigns)>>]
             ELSE elseifSelect(Tail(tests), Tail(assigns), else, e)

\* ifActionBeagleG.evaluate once the IF test evaluated to v
ifSelected(act, v, e) ==
    IF v.st # "ok" THEN [st |-> v.st, assign |-> <<>>]
    ELSE IF ~NumberEqual(Num(0), v.v) THEN [st |-> "ok", assign |-> <<act.thenAssign>>]
    ELSE elseifSelect(act.elseifTests, act.elseifAssigns, act.elseAssign, e)

ifSelect(act, e) == ifSelected(act, Eval(act.ifTest, e), e)

\* ifActionBeagleG.evaluate: the selected assignment is evaluated as an
\* assignment action of its own
ifActionEvaluate(act, sel, p, f) ==
    IF sel.st # "ok" \/ sel.assign = <<>>
    THEN EvRes(p.eng, p.codes, p.endFuncs, p.stack, FALSE, sel.st, <<>>)
    ELSE numAssignActionEvaluate(sel.assign[1], p, f)

\* codeAction.evaluate once the expression evaluated to v
codeActionEvaluate(act, p, v) ==
    IF v.st # "ok"
    THEN EvRes(p.eng, p.codes, p.endFuncs, p.stack, FALSE, v.st, <<>>)
    ELSE EvRes(p.eng, Append(p.codes, Code(act.letter, v.v)), p.endFuncs,
               p.stack, FALSE, "ok", <<>>)

evaluate(act, p, f) ==
    CASE act.k = "code" -> codeActionEvaluate(act, p, Eval(act.expr, p.eng))
      [] act.k = "assign" -> numAssignActionEvaluate(act, p, f)
      [] act.k = "eol" -> eolActionEvaluate(p)
      [] act.k = "while" -> whileActionEvaluate(act, p)
      [] act.k = "if" -> ifActionEvaluate(act, ifSelect(act, p.eng), p, f)
      [] act.k = "end" ->
           EvRes(p.eng, p.codes, p.endFuncs, p.stack, FALSE,
                 "unexpected END, no matching WHILE", <<>>)
      [] act.k = "comment" ->
           EvRes(p.eng, p.codes, p.endFuncs, p.stack, FALSE, "ok", <<>>)

\* commentAction.evaluate: the sinks after the action act, a comment
\* writing its body to the sink of its command
commentActionEvaluate(act, out, err) ==
    IF act.k # "comment" THEN [outW |-> out, errW |-> err]
    ELSE IF act.cmd = "print" THEN [outW |-> out, errW |-> Append(err, act.body)]
    ELSE [outW |-> Append(out, act.body), errW |-> err]

\* as collect, but an END closing an inner loop drops that loop instead
\* of adding it to the body of the enclosing one
collectDroppingInner(act, b) ==
    IF b = <<>> THEN [building |-> b, toEval |-> act]
    ELSE IF act.k = "end"
    THEN LET while == AWhile(Head(b).test, Head(b).actions)
             outer == Tail(b)
         IN  IF outer = <<>> THEN [building |-> outer, toEval |-> while]
             ELSE [building |-> outer, toEval |-> NoAct]
    ELSE [building |-> <<[Head(b) EXCEPT !.actions = Append(@, act)]>> \o Tail(b),
          toEval |-> NoAct]

\* parseWhileBeagleG's collecting loop: what becomes of an action that
\* Parser.parse returned while loops are being collected.  toEval is the
\* action handed back to Parse (NoAct while the outermost loop is open).
collect(act, b) ==
    IF b = <<>> THEN [building |-> b, toEval |-> act]
    ELSE IF act.k = "end"
    THEN LET while == AWhile(Head(b).test, Head(b).actions)
             outer == Tail(b)
         IN  IF outer = <<>> THEN [building |-> outer, toEval |-> while]
             ELSE [building |->
                       <<[Head(outer) EXCEPT !.actions = Append(@, while)]>>
                       \o Tail(outer),
                   toEval |-> NoAct]
    ELSE [building |-> <<[Head(b) EXCEPT !.actions = Append(@, act)]>> \o Tail(b),
          toEval |-> NoAct]

-----------------------------------------------------------------------------
(* The state machine: Engine.Evaluate driving Parser.Parse.                *)

MaxFail == 2
MaxConsume == 1
\* the positions a hook reports through setCurrentPosition
HookPositions == {Pos(Num(9), Num(0), Num(-9))}
MachInputs ==
    [failAt : 0..MaxFail, consume : 0..MaxConsume,
     setCurPos : {<<>>} \cup {<<p>> : p \in HookPositions}]

NoLits == [k \in StoreParams |-> Undef]

InitHist ==
    [ lastAct     |-> "init",
      writes      |-> <<>>,          \* parameter writes done by the last step
      lineEng     |-> NewEngine,     \* the engine when the current line began
      lineAssigns |-> <<>>,          \* the assignments read on the current line
      lineLits    |-> NoLits,        \* literal last assigned to a slot on this line
      codeExprs   |-> <<>>,          \* the expression of each code in codes
      codeLits    |-> <<>>,          \* lineLits when each code was evaluated
      ended       |-> FALSE,         \* a program-end code was dispatched
      endRest     |-> 0,             \* codes left on the line at program end
      g53         |-> FALSE,         \* G53 dispatched since the last motion code
      g53Adjacent |-> FALSE,         \* the code dispatched last was G53
      l20         |-> <<>>,          \* the last G10 L20 with an X word, if fresh
      whileTests  |-> 0,             \* evaluations of a WHILE test
      g92         |-> <<>>,          \* the engine before and the words of a G92
                                     \* dispatched last, nothing written since
      saved       |-> <<>>,          \* the work offset before the last G92.2, until
                                     \* G92, G92.1, G92.3 or a write to 5211-5213
      before921   |-> <<>>,          \* the engine before the G92 that the G92.1
                                     \* dispatched last directly followed
      restored    |-> <<>>,          \* saved, when the code dispatched last is G92.3
      failedAt    |-> 0,             \* which Machine call of the last dispatch
                                     \* failed: 0 when none did
      err         |-> NoErr,         \* the error Evaluate returned
      sWord       |-> <<>>,          \* the speed of the last S word dispatched
      mWord       |-> <<>>,          \* the direction of the last M3 or M4: TRUE for M3
      hook        |-> <<>>,          \* the Machine's answer, when the last dispatch
                                     \* called HandleUnknown
      fedLines    |-> 0,             \* the newlines the source supplied so far
      ifChose     |-> <<>>,          \* the assignment the IF just evaluated selected
      lineNums    |-> <<>>,          \* the numbers of the N directives accepted
      errWhere    |-> <<>>,          \* the line prefix of the parser's error
      prog        |-> <<>> ]         \* the parameters of the chosen program

InitMachine(f, h, program) ==
    /\ features = f
    /\ src = program
    /\ fed = 0
    /\ lineState = "beforeLineNum"
    /\ physicalLine = 0
    /\ virtualLine = 0
    /\ stack = <<>>
    /\ building = <<>>
    /\ codes = <<>>
    /\ endFuncs = <<>>
    /\ lineCodes = <<>>
    /\ useMachine = FALSE
    /\ parseFrom = "loop"
    /\ pc = "parse"
    /\ eng = NewEngine
    /\ calls = <<>>
    /\ outW = <<>>
    /\ errW = <<>>
    /\ hist = h

\* the state after construction, no function being applied on its own
InitWith(f, h, program) ==
    /\ InitMachine(f, h, program)
    /\ inputs = <<>>
    /\ output = <<>>

\* the state in which a function is applied on its own to arguments among ins
InitApply(ins) ==
    /\ InitMachine({}, InitHist, <<>>)
    /\ inputs \in ins
    /\ output = <<>>

\* the function is applied and returns out
Returns(out) ==
    /\ output = <<>>
    /\ output' = <<out>>
    /\ UNCHANGED <<inputs, machineVars>>

\* the observations after Parse evaluated act with result r
HistEval(act, r) ==
    LET known == IF act.op # "assign" THEN Undef
                 ELSE IF act.expr.t = "num" THEN act.expr.v
                 ELSE IF act.expr.t = "param" /\ act.expr.refs = 1
                         /\ act.expr.e.t = "num" /\ act.expr.e.v[2] = 1
                         /\ act.expr.e.v[1] \in StoreParams
                      THEN hist.lineLits[act.expr.e.v[1]]
                 ELSE Undef
        lit == IF act.k = "assign" /\ act.num \in StoreParams
               THEN [hist.lineLits EXCEPT ![act.num] = known]
               ELSE hist.lineLits
    IN  [hist EXCEPT
           !.lastAct = act.k,
           !.writes = r.writes,
           !.lineEng = IF act.k = "eol" THEN r.eng ELSE @,
           !.lineAssigns = IF act.k = "eol" THEN <<>>
                           ELSE IF act.k = "assign" THEN Append(@, act) ELSE @,
           !.lineLits = IF act.k = "eol" THEN NoLits ELSE lit,
           !.codeExprs = IF act.k = "eol" THEN <<>>
                         ELSE IF act.k = "code" /\ r.st = "ok"
                         THEN Append(@, act.expr) ELSE @,
           !.codeLits = IF act.k = "eol" THEN <<>>
                        ELSE IF act.k = "code" /\ r.st = "ok"
                        THEN Append(@, hist.lineLits) ELSE @,
           !.l20 = IF r.writes # <<>> THEN <<>> ELSE @,
           !.whileTests = IF act.k = "while" THEN @ + 1 ELSE @,
           !.ifChose = IF act.k = "if" /\ r.st = "ok" THEN ifSelect(act, eng).assign
                       ELSE <<>>,
           !.g92 = IF r.writes # <<>> THEN <<>> ELSE @,
           !.before921 = IF r.writes # <<>> THEN <<>> ELSE @,
           !.restored = IF r.writes # <<>> THEN <<>> ELSE @,
           !.saved = IF \E i \in 1..Len(r.writes) :
                            r.writes[i].num \in {workPosXParam, workPosYParam,
                                                 workPosZParam}
                     THEN <<>> ELSE @,
           !.err = IF r.st \in {"ok", "crash"} THEN @ ELSE r.st]

\* The tail of Parse's loop: evaluate act and either go on, return the codes
\* of a finished line to Evaluate, or return the error.
ParseEvaluate(act, stk) ==
    \E r \in {evaluate(act, [eng |-> eng, codes |-> codes, endFuncs |-> endFuncs,
                                stack |-> stk], features)} :
        /\ eng' = r.eng
        /\ stack' = r.stack
        /\ hist' = HistEval(act, r)
        /\ UNCHANGED calls
        /\ \E w \in {commentActionEvaluate(act, outW, errW)} :
               outW' = w.outW /\ errW' = w.errW
        /\ IF r.st = "crash"
           THEN pc' = "crash" /\ UNCHANGED <<codes, endFuncs, lineCodes, useMachine>>
           ELSE IF r.st # "ok"
           THEN pc' = "error" /\ UNCHANGED <<codes, endFuncs, lineCodes, useMachine>>
           ELSE IF r.done /\ Len(r.codes) > 0
           THEN /\ pc' = "dispatch"
                /\ lineCodes' = r.codes
                /\ codes' = <<>>
                /\ endFuncs' = <<>>
                /\ useMachine' = (parseFrom = "g53" /\ useMachine)
           ELSE /\ pc' = "parse"
                /\ codes' = r.codes
                /\ endFuncs' = r.endFuncs
                /\ UNCHANGED <<lineCodes, useMachine>>

\* the newlines among the tokens s
Newlines(s) == Cardinality({i \in 1..Len(s) : s[i].k \in {"nl", "while", "end", "if"}})

\* the source supplies its next line
Feed(lines, max) ==
    /\ pc = "parse"
    /\ stack = <<>>
    /\ src = <<>>
    /\ fed < max
    /\ \E l \in lines :
          /\ src' = l
          /\ hist' = [hist EXCEPT !.lastAct = "feed", !.writes = <<>>,
                                  !.fedLines = @ + Newlines(l)]
    /\ fed' = fed + 1
    /\ UNCHANGED <<features, lineState, physicalLine, virtualLine, stack, building,
                   codes, endFuncs, lineCodes, useMachine, parseFrom, pc, eng, calls,
                   outW, errW, inputs, output>>

\* Parse with an empty execution stack: Parser.parse reads the next token
ParseToken ==
    /\ pc = "parse"
    /\ stack = <<>>
    /\ src # <<>>
    /\ LET t == Head(src)
           pr == parse(t, lineState, physicalLine, virtualLine, features)
           c == collect(pr.act, building)
       IN  /\ src' = IF t.k = "tail" /\ ~pr.unread THEN Tail(Tail(src))
                     ELSE Tail(src)
           /\ lineState' = pr.lineState
           /\ physicalLine' = pr.physicalLine
           /\ virtualLine' = pr.virtualLine
           /\ UNCHANGED <<features, fed, parseFrom, inputs, output>>
           /\ IF pr.st # "ok"
              THEN /\ pc' = "error"
                   /\ hist' = [hist EXCEPT !.lastAct = "parseError", !.writes = <<>>,
                                           !.err = pr.st,
                                           !.errWhere = where(pr.physicalLine,
                                                              pr.virtualLine)]
                   /\ UNCHANGED <<stack, building, codes, endFuncs, lineCodes,
                                  useMachine, eng, calls, outW, errW>>
              ELSE IF t.k = "while"
              THEN /\ building' = <<[test |-> t.test, actions |-> <<>>]>> \o building
                   /\ hist' = [hist EXCEPT !.lastAct = "build", !.writes = <<>>]
                   /\ UNCHANGED <<stack, codes, endFuncs, lineCodes, useMachine,
                                  pc, eng, calls, outW, errW>>
              ELSE IF pr.act = NoAct
              THEN /\ hist' = [hist EXCEPT !.lastAct = "build", !.writes = <<>>,
                                           !.lineNums = IF t.k = "n"
                                                        THEN Append(@, t.num)
                                                        ELSE @]
                   /\ UNCHANGED <<stack, building, codes, endFuncs, lineCodes,
                                  useMachine, pc, eng, calls, outW, errW>>
              ELSE IF c.toEval = NoAct
              THEN /\ building' = c.building
                   /\ hist' = [hist EXCEPT !.lastAct = "build", !.writes = <<>>]
                   /\ UNCHANGED <<stack, codes, endFuncs, lineCodes, useMachine,
                                  pc, eng, calls, outW, errW>>
              ELSE /\ building' = c.building
                   /\ ParseEvaluate(c.toEval, stack)

\* as nextFrames, but leaving a frame on the stack while its last action is
\* evaluated
nextFramesKeepingLast(stk) ==
    IF Len(Head(stk)) = 1 THEN stk ELSE <<Tail(Head(stk))>> \o Tail(stk)

\* Parse, taking the first action of the top frame: the frame is dropped
\* when that was its last action
nextFrames(stk) ==
    IF Len(Head(stk)) = 1 THEN Tail(stk) ELSE <<Tail(Head(stk))>> \o Tail(stk)

\* Parse with a non-empty execution stack: the next action of the top frame
StackStep ==
    /\ pc = "parse"
    /\ stack # <<>>
    /\ ParseEvaluate(Head(Head(stack)), nextFrames(stack))
    /\ UNCHANGED <<features, src, fed, lineState, physicalLine, virtualLine,
                   building, parseFrom, inputs, output>>

\* as Eof, but Parse wraps the end of the source in an error of its own,
\* which Evaluate returns
EofAsError ==
    /\ pc = "parse"
    /\ stack = <<>>
    /\ src = <<>>
    /\ pc' = "error"
    /\ hist' = [hist EXCEPT !.lastAct = "eof", !.writes = <<>>, !.err = "EOF",
                            !.errWhere = where(physicalLine, virtualLine)]
    /\ UNCHANGED <<features, src, fed, lineState, physicalLine, virtualLine, stack,
                   building, codes, endFuncs, lineCodes, useMachine, parseFrom,
                   eng, calls, outW, errW, inputs, output>>

\* readByte finds the source exhausted: Parse returns io.EOF and Evaluate nil
Eof ==
    /\ pc = "parse"
    /\ stack = <<>>
    /\ src = <<>>
    /\ pc' = "done"
    /\ hist' = [hist EXCEPT !.lastAct = "eof", !.writes = <<>>]
    /\ UNCHANGED <<features, src, fed, lineState, physicalLine, virtualLine, stack,
                   building, codes, endFuncs, lineCodes, useMachine, parseFrom,
                   eng, calls, outW, errW, inputs, output>>

IsG(code, n) == code.Letter = "G" /\ GIs(code.Value, n, 1)
\* the code is G n.d, given as the tenths 10*n + d
IsGTenths(code, t) == code.Letter = "G" /\ GIs(code.Value, t, 10)
IsM(code, n) == code.Letter = "M" /\ GIs(code.Value, n, 1)

\* does the dispatch of cs[1] reach moveTo
IsMotion(e, cs) ==
    LET code == Head(cs)
    IN  \/ IsG(code, 0) \/ IsG(code, 1)
        \/ code.Letter \in {"X", "Y", "Z"} /\ e.moveMode \in {"rapidMove", "linearMove"}
        \/ code.Letter = "F" /\ e.moveMode = "linearMove"

\* the observations after the dispatch of lineCodes[1] with result r
HistDispatch(r, mach) ==
    LET code == Head(lineCodes)
        isM2 == code.Letter = "M" /\ (GIs(code.Value, 2, 1) \/ GIs(code.Value, 30, 1))
        isG53 == IsG(code, 53)
        isSelect == code.Letter = "G" /\ r.eng = [eng EXCEPT !.curCoordSys = r.eng.curCoordSys]
                      /\ Len(r.calls) = 0 /\ ~IsG(code, 10)
        args == IF IsG(code, 10) THEN parseArgs(Tail(lineCodes), {"L", "P", "X", "Y", "Z"}).args
                ELSE <<>>
        isL20 == /\ IsG(code, 10) /\ r.st = "ok"
                 /\ hasArg(args, "L") /\ NumberEqual(ArgNum(args, "L"), Num(20))
                 /\ hasArg(args, "X") /\ hasArg(args, "P")
    IN  [hist EXCEPT
           !.lastAct = "dispatch",
           !.writes = <<>>,
           !.lineEng = r.eng,
           !.ended = @ \/ isM2,
           !.endRest = IF isM2 THEN Len(lineCodes) - 1 ELSE @,
           !.g53 = IF isG53 THEN TRUE
                   ELSE IF IsMotion(eng, lineCodes) THEN FALSE ELSE @,
           !.g53Adjacent = isG53,
           !.l20 = IF isL20
                   THEN <<[sys |-> CoordSysOfP(eng, ArgNum(args, "P")),
                           x |-> ArgNum(args, "X"),
                           curPos |-> eng.curPos, units |-> eng.units]>>
                   ELSE IF isSelect THEN @ ELSE <<>>,
           !.g92 = IF IsG(code, 92) /\ r.st = "ok"
                   THEN <<[eng |-> eng,
                           args |-> parseArgs(Tail(lineCodes), {"X", "Y", "Z"}).args]>>
                   ELSE <<>>,
           !.saved = IF IsGTenths(code, 922) THEN <<eng.workPos>>
                     ELSE IF IsG(code, 92) \/ IsGTenths(code, 921)
                             \/ IsGTenths(code, 923)
                     THEN <<>> ELSE @,
           !.before921 = IF IsGTenths(code, 921) /\ hist.g92 # <<>>
                         THEN <<hist.g92[1].eng>> ELSE <<>>,
           !.restored = IF IsGTenths(code, 923) THEN hist.saved ELSE <<>>,
           !.failedAt = IF mach.failAt \in 1..Len(r.calls) THEN mach.failAt ELSE 0,
           !.err = IF r.st \in {"ok", "parse", "return", "crash"} THEN @ ELSE r.st,
           !.sWord = IF code.Letter = "S" /\ ~RLt(code.Value, Num(0))
                     THEN <<code.Value>> ELSE @,
           !.mWord = IF IsM(code, 3) THEN <<TRUE>>
                     ELSE IF IsM(code, 4) THEN <<FALSE>> ELSE @,
           !.hook = IF r.calls # <<>> /\ r.calls[1][1] = "handleUnknown"
                    THEN <<[consume |-> mach.consume, setCurPos |-> mach.setCurPos]>>
                    ELSE <<>>]

\* One iteration of Evaluate's loop over the codes of the line
Dispatch ==
    /\ pc = "dispatch"
    /\ lineCodes # <<>>
    /\ \E mach \in MachInputs :
         \E r \in {evalCode(eng, lineCodes, useMachine, mach)} :
             /\ eng' = r.eng
             /\ calls' = calls \o r.calls
             /\ useMachine' = r.useMachine
             /\ hist' = HistDispatch(r, mach)
             /\ CASE r.st = "ok" ->
                       /\ lineCodes' = r.codes
                       /\ pc' = IF r.codes = <<>> THEN "parse" ELSE "dispatch"
                       /\ parseFrom' = "loop"
                  [] r.st = "parse" ->
                       /\ lineCodes' = <<>>
                       /\ pc' = "parse"
                       /\ parseFrom' = "g53"
                  [] r.st = "return" ->
                       /\ lineCodes' = Tail(lineCodes)
                       /\ pc' = "done"
                       /\ UNCHANGED parseFrom
                  [] r.st = "crash" ->
                       /\ lineCodes' = Tail(lineCodes)
                       /\ pc' = "crash"
                       /\ UNCHANGED parseFrom
                  [] OTHER ->
                       /\ lineCodes' = Tail(lineCodes)
                       /\ pc' = "error"
                       /\ UNCHANGED parseFrom
    /\ UNCHANGED <<features, src, fed, lineState, physicalLine, virtualLine, stack,
                   building, codes, endFuncs, outW, errW, inputs, output>>

-----------------------------------------------------------------------------
(* Programs with assignments and parameter references.                     *)

MaxAssignLines == 3

AllFeatures == {"BeagleG", "LinuxCNC", "RepRap"}
AssignFeatures == {{"BeagleG"}, {"RepRap"}, {"LinuxCNC"}, AllFeatures}

AssignLines ==
    { <<TAssign(1, "assign", ENum(Num(1))), TNL>>,                   \* #1=1
      <<TAssign(1, "assign", ENum(Num(2))), TCode("T", ERef(1)), TNL>>,
                                                                     \* #1=2 T#1
      <<TAssign(1, "assign", ENum(Num(3))), TAssign(2, "assign", ERef(1)),
        TCode("T", ERef(2)), TNL>>,                                  \* #1=3 #2=#1 T#2
      <<TCode("T", ERef(1)), TAssign(1, "assign", ENum(Num(4))),
        TAssign(1, "assign", ENum(Num(5))), TCode("S", ERef(1)), TNL>>,
                                                                     \* T#1 #1=4 #1=5 S#1
      <<TAssign(2, "assignPlus", ENum(Num(1))), TCode("T", ERef(2)), TNL>>,
                                                                     \* #2+=1 T#2
      <<TCode("S", ERef(1)), TNL>> }                                 \* S#1

InitAssign == \E f \in AssignFeatures : InitWith(f, InitHist, <<>>)

NextAssign ==
    \/ Feed(AssignLines, MaxAssignLines)
    \/ ParseToken
    \/ Eof
    \/ Dispatch

SpecAssign == InitAssign /\ [][NextAssign]_vars

\* the step by which Parse evaluated a code action
CodeStep == hist'.lastAct = "code" /\ Len(codes') = Len(codes) + 1
\* the step by which Parse evaluated an assignment action
AssignStep == hist'.lastAct = "assign" /\ pc' \notin {"error", "crash"}
\* the step by which Parse evaluated an end of line without error
EolStep == hist'.lastAct = "eol" /\ pc' \notin {"error", "crash"}

\* the expression of a code action is a plain reference #k to a slot whose
\* value was assigned earlier on the same line
RefToAssigned(x, lits) ==
    /\ x.t = "param" /\ x.refs = 1 /\ x.e.t = "num"
    /\ x.e.v[2] = 1 /\ x.e.v[1] \in StoreParams
    /\ lits[x.e.v[1]] # Undef

C2_Immediate ==
    [][ ~HasLinuxCNC(features) =>
          /\ (AssignStep =>
                 /\ endFuncs' = <<>>
                 /\ \A k \in StoreParams :
                       hist'.lineLits[k] # Undef => eng'.numParams[k] = hist'.lineLits[k])
          /\ ((CodeStep /\ RefToAssigned(hist'.codeExprs[Len(codes')], hist.lineLits)) =>
                 codes'[Len(codes')].Value
                     = hist.lineLits[hist'.codeExprs[Len(codes')].e.v[1]])
      ]_vars

\* a BeagleG or RepRap line #1=2 T#1 produced T2 from a store that held #1=1
C2_Witness ==
    /\ ~HasLinuxCNC(features)
    /\ pc = "dispatch"
    /\ lineCodes = <<Code("T", Num(2))>>
    /\ eng.numParams[1] = Num(2)

-----------------------------------------------------------------------------
(* Programs with offsets and motion.                                       *)

MaxLines == 3

G(n) == TCode("G", ENum(Num(n)))
W(letter, n, d) == TCode(letter, ENum(Rat(n, d)))

OffsetLines ==
    { <<TAssign(workPosXParam, "assign", ENum(Rat(-3, 2))), TNL>>,   \* #5211=-1.5
      <<TAssign(workPosEnabled, "assign", ENum(Num(1))), TNL>>,      \* #5210=1
      <<TAssign(workPosEnabled, "assign", ENum(Num(0))), TNL>>,      \* #5210=0
      <<G(10), W("L", 2, 1), W("P", 1, 1), W("X", -1, 1), TNL>>,     \* G10 L2 P1 X-1
      <<G(92), W("X", 1, 1), TNL>>,                                  \* G92 X1
      <<G(0), W("X", 0, 1), TNL>>,                                   \* G0 X0
      <<G(1), W("X", 2, 1), W("Y", 1, 1), W("F", 3, 1), TNL>>,       \* G1 X2 Y1 F3
      <<W("X", 1, 1), W("Z", 1, 2), TNL>>,                           \* X1 Z0.5
      <<G(91), TNL>>,                                                \* G91
      <<G(20), TNL>> }                                               \* G20

Init == InitWith(AllFeatures, InitHist, <<>>)

Next ==
    \/ Feed(OffsetLines, MaxLines)
    \/ ParseToken
    \/ Eof
    \/ Dispatch

Spec == Init /\ [][Next]_vars

\* the axis words a dispatch of cs hands to moveTo
MoveWords(cs) ==
    IF IsG(Head(cs), 0) \/ IsG(Head(cs), 1)
    THEN parseArgs(Tail(cs), {"F", "X", "Y", "Z"}).args
    ELSE parseArgs(cs, {"F", "X", "Y", "Z"}).args

\* the step that dispatched a motion code and completed its move
MoveStep ==
    /\ pc = "dispatch"
    /\ hist'.lastAct = "dispatch"
    /\ IsMotion(eng, lineCodes)
    /\ pc' \notin {"error", "crash"}

\* axis word a resolved as the specification says: through the offset of
\* the current coordinate system, and through the work offset when enabled
Resolved(e, a, cs, wp) ==
    RSub(RSub(RMul(a, e.units), cs), IF e.useWorkPos THEN wp ELSE Num(0))

\* C3: in absolute mode without G53 a completed move puts every axis that has
\* a word a at a*units - coord_sys[cur] - work_pos when parameter 5210 is on
\* and at a*units - coord_sys[cur] when it is off.
C3_AbsoluteResolution ==
    [][ (MoveStep /\ eng.absoluteMode /\ ~useMachine) =>
          LET args == MoveWords(lineCodes)
              cs == eng.coordSysPos[eng.curCoordSys]
          IN  /\ hasArg(args, "X") =>
                   eng'.curPos.X = Resolved(eng, ArgNum(args, "X"), cs.X, eng.workPos.X)
              /\ hasArg(args, "Y") =>
                   eng'.curPos.Y = Resolved(eng, ArgNum(args, "Y"), cs.Y, eng.workPos.Y)
              /\ hasArg(args, "Z") =>
                   eng'.curPos.Z = Resolved(eng, ArgNum(args, "Z"), cs.Z, eng.workPos.Z)
      ]_vars

-----------------------------------------------------------------------------
(* Programs with G53.                                                      *)

MaxG53Lines == 3

G53Lines ==
    { <<G(10), W("L", 2, 1), W("P", 1, 1), W("X", -1, 1), TNL>>,     \* G10 L2 P1 X-1
      <<G(53), G(0), W("X", 2, 1), G(0), W("X", 0, 1), TNL>>,        \* G53 G0 X2 G0 X0
      <<G(53), G(1), W("X", 1, 1), TNL>>,                            \* G53 G1 X1
      <<G(53), TNL>>,                                                \* G53
      <<G(0), W("X", 1, 1), TNL>>,                                   \* G0 X1
      <<G(1), W("X", 0, 1), W("Y", 1, 1), G(0), W("X", 3, 1), TNL>>, \* G1 X0 Y1 G0 X3
      <<W("X", 2, 1), TNL>>,                                         \* X2
      <<G(91), TNL>> }                                               \* G91

NextG53 ==
    \/ Feed(G53Lines, MaxG53Lines)
    \/ ParseToken
    \/ Eof
    \/ Dispatch

SpecG53 == Init /\ [][NextG53]_vars

\* C5: a completed absolute move whose motion code directly follows a G53
\* takes its axis words as raw machine coordinates, and one with no G53
\* dispatched since the motion code before it (on the same line or an earlier
\* one) resolves them through the offsets.
C5_G53OnlyNextMotion ==
    [][ (MoveStep /\ eng.absoluteMode /\ (hist.g53Adjacent \/ ~hist.g53)) =>
          LET args == MoveWords(lineCodes)
              Target(a, viaOffsets) ==
                  IF hist.g53Adjacent THEN RMul(a, eng.units) ELSE viaOffsets
          IN  /\ hasArg(args, "X") =>
                   eng'.curPos.X =
                       Target(ArgNum(args, "X"),
                              toMachineX(eng, RMul(ArgNum(args, "X"), eng.units), TRUE))
              /\ hasArg(args, "Y") =>
                   eng'.curPos.Y =
                       Target(ArgNum(args, "Y"),
                              toMachineY(eng, RMul(ArgNum(args, "Y"), eng.units), TRUE))
              /\ hasArg(args, "Z") =>
                   eng'.curPos.Z =
                       Target(ArgNum(args, "Z"),
                              toMachineZ(eng, RMul(ArgNum(args, "Z"), eng.units), TRUE))
      ]_vars

-----------------------------------------------------------------------------
(* Programs with G10 L20.                                                  *)

MaxTripLines == 4

TripLines ==
    { <<G(0), W("X", 1, 1), TNL>>,                                   \* G0 X1
      <<G(92), W("X", 1, 1), TNL>>,                                  \* G92 X1
      <<G(10), W("L", 20, 1), W("P", 2, 1), W("X", 0, 1), TNL>>,     \* G10 L20 P2 X0
      <<G(10), W("L", 20, 1), W("P", 0, 1), W("X", 2, 1), TNL>>,     \* G10 L20 P0 X2
      <<G(55), TNL>>,                                                \* G55
      <<G(0), W("X", 0, 1), TNL>>,                                   \* G0 X0
      <<G(1), W("X", 2, 1), TNL>>,                                   \* G1 X2
      <<G(20), TNL>> }                                               \* G20

NextTrip ==
    \/ Feed(TripLines, MaxTripLines)
    \/ ParseToken
    \/ Eof
    \/ Dispatch

SpecTrip == Init /\ [][NextTrip]_vars

\* C10: when G10 L20 Pn X x was dispatched, system n is the current one and
\* nothing but coordinate-system selections happened since, a completed
\* absolute move to X x in the same units leaves the machine X position
\* where it was at the G10.
C10_CoordSysRoundTrip ==
    [][ (MoveStep /\ eng.absoluteMode /\ ~useMachine /\ hist.l20 # <<>>) =>
          LET t == hist.l20[1]
              args == MoveWords(lineCodes)
          IN  (/\ hasArg(args, "X")
               /\ ArgNum(args, "X") = t.x
               /\ eng.curCoordSys = t.sys
               /\ eng.units = t.units) => eng'.curPos.X = t.curPos.X
      ]_vars

-----------------------------------------------------------------------------
(* Programs that end with M2 or M30.                                       *)

MaxEndLines == 3

M(n) == TCode("M", ENum(Num(n)))

EndLines ==
    { <<M(3), TNL>>,                                                 \* M3
      <<W("S", 5, 1), M(4), TNL>>,                                   \* S5 M4
      <<M(5), TNL>>,                                                 \* M5
      <<M(2), G(0), W("X", 1, 1), TNL>>,                             \* M2 G0 X1
      <<W("T", 1, 1), M(30), W("T", 2, 1), TNL>>,                    \* T1 M30 T2
      <<M(30), TNL>>,                                                \* M30
      <<G(0), W("X", 1, 1), TNL>> }                                  \* G0 X1

NextEnd ==
    \/ Feed(EndLines, MaxEndLines)
    \/ ParseToken
    \/ Eof
    \/ Dispatch

SpecEnd == Init /\ [][NextEnd]_vars

IsEndCode(code) ==
    code.Letter = "M" /\ (GIs(code.Value, 2, 1) \/ GIs(code.Value, 30, 1))

\* C4: the dispatch of M2 or M30 issues spindleOff exactly when the spindle
\* is on and no other Machine call, and leaves Evaluate returned; from then
\* on no code is dispatched, no Machine call is issued and the engine does
\* not change.
C4_EndProgram ==
    /\ [](hist.ended => pc \in {"done", "error"})
    /\ [][ /\ (pc = "dispatch" /\ IsEndCode(Head(lineCodes))) =>
                /\ calls' = calls \o (IF eng.spindleOn THEN <<<<"spindleOff", 0>>>>
                                                      ELSE <<>>)
                /\ ~eng'.spindleOn
                /\ hist'.ended
           /\ hist.ended => (calls' = calls /\ eng' = eng /\ lineCodes' = lineCodes)
         ]_vars

\* M30 was dispatched with the spindle on and a code left on its line: the
\* last Machine call is spindleOff and the T2 after it was never dispatched
C4_Witness ==
    /\ hist.ended
    /\ pc = "done"
    /\ lineCodes = <<Code("T", Num(2))>>
    /\ Len(calls) = 3
    /\ calls[1][1] = "setSpindle"
    /\ calls[2] = <<"selectTool", 1>>
    /\ calls[3] = <<"spindleOff", 0>>

-----------------------------------------------------------------------------
(* Programs that write and read the reserved parameters.                   *)

MaxParamLines == 3

Set(num, n, d) == <<TAssign(num, "assign", ENum(Rat(n, d))), TNL>>

ParamLines ==
    { Set(homePosXParam, 2, 1),                                      \* #5161=2
      Set(secondPosZParam, -1, 1),                                   \* #5183=-1
      Set(workPosEnabled, 1, 1),                                     \* #5210=1
      Set(workPosYParam, 3, 2),                                      \* #5212=1.5
      Set(curCoordSysParam, 2, 1),                                   \* #5220=2
      Set(curCoordSysParam, 12, 1),                                  \* #5220=12
      Set(coordSysParam + coordSysParamStep, 3, 1),                  \* #5241=3
      <<TAssign(coordSysParam + 2, "assignPlus", ENum(Rat(1, 2))),
        TAssign(coordSysParam + 8 * coordSysParamStep + 1, "assign", ERef(5223)),
        TNL>>,                                                       \* #5223+=0.5 #5382=#5223
      Set(5599, 1, 1),                                               \* #5599=1
      Set(100, 7, 1),                                                \* #100=7
      <<G(20), TNL>>,                                                \* G20
      <<G(0), W("X", 1, 1), W("G", 281, 10), TNL>> }                 \* G0 X1 G28.1

NextParams ==
    \/ Feed(ParamLines, MaxParamLines)
    \/ ParseToken
    \/ Eof
    \/ Dispatch

SpecParams == Init /\ [][NextParams]_vars

Axes == {"X", "Y", "Z"}
AxisIndex(a) == CASE a = "X" -> 0 [] a = "Y" -> 1 [] a = "Z" -> 2

\* the number of the parameter that aliases axis a of coordinate system k
CoordSysParamOf(k, a) == coordSysParam + coordSysParamStep * (k - 1) + AxisIndex(a)

\* the piece of engine state a parameter number aliases: a field, for a
\* position its axis, and for a coordinate-system offset its system
Piece(num) ==
    CASE num \in {homePosXParam, homePosYParam, homePosZParam} ->
           [f |-> "homePos", sys |-> 0,
            a |-> CHOOSE a \in Axes : num = homePosXParam + AxisIndex(a)]
      [] num \in {secondPosXParam, secondPosYParam, secondPosZParam} ->
           [f |-> "secondPos", sys |-> 0,
            a |-> CHOOSE a \in Axes : num = secondPosXParam + AxisIndex(a)]
      [] num \in {workPosXParam, workPosYParam, workPosZParam} ->
           [f |-> "workPos", sys |-> 0,
            a |-> CHOOSE a \in Axes : num = workPosXParam + AxisIndex(a)]
      [] num = workPosEnabled -> [f |-> "useWorkPos", sys |-> 0, a |-> ""]
      [] num = curCoordSysParam -> [f |-> "curCoordSys", sys |-> 0, a |-> ""]
      [] \E k \in 1..CoordSysCount, a \in Axes : num = CoordSysParamOf(k, a) ->
           LET ka == CHOOSE ka \in (1..CoordSysCount) \X Axes :
                        num = CoordSysParamOf(ka[1], ka[2])
           IN  [f |-> "coordSysPos", sys |-> ka[1] - 1, a |-> ka[2]]
      [] OTHER -> [f |-> "numParams", sys |-> 0, a |-> ""]

InUnits(e, x) == RDiv(x, e.units)

\* every reserved parameter reads the engine state it aliases
ReadsAlias(e) ==
    LET V(num) == Eval(ERef(num), e)
    IN  /\ \A a \in Axes :
              /\ V(homePosXParam + AxisIndex(a)) = Val(InUnits(e, e.homePos[a]))
              /\ V(secondPosXParam + AxisIndex(a)) = Val(InUnits(e, e.secondPos[a]))
              /\ V(workPosXParam + AxisIndex(a)) = Val(InUnits(e, e.workPos[a]))
              /\ \A k \in 1..CoordSysCount :
                    V(CoordSysParamOf(k, a)) = Val(InUnits(e, e.coordSysPos[k - 1][a]))
        /\ V(workPosEnabled) = Val(IF e.useWorkPos THEN Num(1) ELSE Num(0))
        /\ V(curCoordSysParam) = Val(Num(e.curCoordSys + 1))

\* e2 differs from e in no piece but those the writes ws name
OnlyWritten(e, e2, ws) ==
    LET Hit(f, sys, a) ==
            \E i \in 1..Len(ws) : Piece(ws[i].num) = [f |-> f, sys |-> sys, a |-> a]
    IN  /\ \A f \in DOMAIN e \ {"homePos", "secondPos", "workPos", "coordSysPos"} :
              Hit(f, 0, "") \/ e2[f] = e[f]
        /\ \A f \in {"homePos", "secondPos", "workPos"}, a \in Axes :
              Hit(f, 0, a) \/ e2[f][a] = e[f][a]
        /\ \A k \in 0..(CoordSysCount - 1), a \in Axes :
              Hit("coordSysPos", k, a) \/ e2.coordSysPos[k][a] = e.coordSysPos[k][a]

\* C8: in every reachable state each reserved parameter reads the engine
\* state it aliases, in the active units; and a step that writes parameters
\* changes no piece of engine state but the ones the written numbers alias,
\* the last number written reading back the value written (the flag 5210
\* reading back 1 for a non-zero value).
C8_ReservedAliases ==
    /\ []ReadsAlias(eng)
    /\ [][ hist'.writes # <<>> =>
             LET ws == hist'.writes
                 w == ws[Len(ws)]
             IN  /\ OnlyWritten(eng, eng', ws)
                 /\ Piece(w.num).f \notin {"numParams", "useWorkPos"} =>
                       Eval(ERef(w.num), eng') = Val(w.val)
                 /\ Piece(w.num).f = "useWorkPos" =>
                       eng'.useWorkPos = (w.val # Num(0))
         ]_vars

\* in inches, with the home position moved by G28.1 and system 2 offset by
\* a parameter write
C8_Witness ==
    /\ eng.units = mmPerInch
    /\ eng.homePos.X # Num(0)
    /\ eng.coordSysPos[1].X # Num(0)
    /\ hist.lastAct = "eol" /\ hist.writes # <<>>

\* C9: a step that executes the assignment #k = v leaves a state in which
\* #k evaluates to v.
C9_DereferenceRoundTrip ==
    [][ hist'.writes # <<>> =>
          LET w == hist'.writes[Len(hist'.writes)]
          IN  Eval(ERef(w.num), eng') = Val(w.val)
      ]_vars

-----------------------------------------------------------------------------
(* Programs that set, zero, save and restore the work offset.              *)

MaxWorkLines == 3

WorkLines ==
    { <<G(0), W("X", 1, 1), W("Y", 2, 1), TNL>>,                     \* G0 X1 Y2
      <<G(92), W("X", 1, 1), TNL>>,                                  \* G92 X1
      <<G(92), W("X", 2, 1), W("Z", 1, 1), TNL>>,                    \* G92 X2 Z1
      <<W("G", 921, 10), TNL>>,                                      \* G92.1
      <<W("G", 922, 10), TNL>>,                                      \* G92.2
      <<W("G", 923, 10), TNL>>,                                      \* G92.3
      <<TAssign(workPosEnabled, "assign", ENum(Num(1))),
        TAssign(workPosYParam, "assign", ENum(Rat(3, 2))), TNL>>,    \* #5210=1 #5212=1.5
      <<G(1), W("X", 2, 1), W("Z", 1, 1), TNL>>,                     \* G1 X2 Z1
      <<G(20), TNL>> }                                               \* G20

NextWork ==
    \/ Feed(WorkLines, MaxWorkLines)
    \/ ParseToken
    \/ Eof
    \/ Dispatch

SpecWork == Init /\ [][NextWork]_vars

\* the axis words whose resolution is compared
SampleWords == {Num(0), Num(1), Rat(-3, 2)}

\* every absolute axis word resolves to the same machine coordinate in e1
\* as in e2
SameMapping(e1, e2) ==
    \A a \in SampleWords :
        /\ toMachineX(e1, RMul(a, e1.units), TRUE) = toMachineX(e2, RMul(a, e2.units), TRUE)
        /\ toMachineY(e1, RMul(a, e1.units), TRUE) = toMachineY(e2, RMul(a, e2.units), TRUE)
        /\ toMachineZ(e1, RMul(a, e1.units), TRUE) = toMachineZ(e2, RMul(a, e2.units), TRUE)

\* C11 as stated: after G92 with axis words directly followed by G92.1,
\* every absolute axis word resolves as it did before the G92, whatever the
\* engine state the G92 was issued in.
C11_WorkOffsetReversible ==
    hist.before921 # <<>> => SameMapping(eng, hist.before921[1])

\* C11 as amended: G92 directly followed by G92.1 leaves the work offset
\* and the saved work offset zero, so that every absolute axis word resolves
\* as it did before the G92 when the work offset was zero before the G92.
C11_ZeroOffsetReversible ==
    hist.before921 # <<>> =>
        /\ eng.workPos = zeroPosition
        /\ eng.savedWorkPos = zeroPosition
        /\ hist.before921[1].workPos = zeroPosition =>
              SameMapping(eng, hist.before921[1])

\* G92.1 has undone a G92 that was issued away from the origin with a zero
\* work offset
C11_Witness ==
    /\ hist.before921 # <<>>
    /\ hist.before921[1].workPos = zeroPosition
    /\ hist.before921[1].curPos # zeroPosition
    /\ hist.lastAct = "dispatch"

\* the step that dispatched G92 without error
G92Step ==
    /\ pc = "dispatch"
    /\ IsG(Head(lineCodes), 92)
    /\ hist'.g92 # <<>>

\* C12: the dispatch of G92 with axis words issues no Machine call and
\* leaves cur_pos alone; afterwards an absolute word with the given value
\* resolves to cur_pos on every named axis, and the axes that were not named
\* keep their work offset.  A completed absolute move that directly follows
\* and repeats the value of a named axis leaves that axis where it is.
C12_WorkPositionAppears ==
    [][ /\ G92Step =>
             LET args == hist'.g92[1].args
             IN  /\ calls' = calls
                 /\ eng'.curPos = eng.curPos
                 /\ IF hasArg(args, "X")
                    THEN toMachineX(eng', RMul(ArgNum(args, "X"), eng'.units), TRUE)
                             = eng.curPos.X
                    ELSE eng'.workPos.X = eng.workPos.X
                 /\ IF hasArg(args, "Y")
                    THEN toMachineY(eng', RMul(ArgNum(args, "Y"), eng'.units), TRUE)
                             = eng.curPos.Y
                    ELSE eng'.workPos.Y = eng.workPos.Y
                 /\ IF hasArg(args, "Z")
                    THEN toMachineZ(eng', RMul(ArgNum(args, "Z"), eng'.units), TRUE)
                             = eng.curPos.Z
                    ELSE eng'.workPos.Z = eng.workPos.Z
        /\ (MoveStep /\ eng.absoluteMode /\ ~useMachine /\ hist.g92 # <<>>) =>
             LET given == hist.g92[1].args
                 args == MoveWords(lineCodes)
                 Same(l) == hasArg(given, l) /\ hasArg(args, l)
                            /\ ArgNum(given, l) = ArgNum(args, l)
             IN  /\ Same("X") => eng'.curPos.X = eng.curPos.X
                 /\ Same("Y") => eng'.curPos.Y = eng.curPos.Y
                 /\ Same("Z") => eng'.curPos.Z = eng.curPos.Z
      ]_vars

\* G92 X1 was dispatched away from the origin while the Y axis, which it
\* does not name, had a work offset
C12_Witness ==
    /\ hist.g92 # <<>>
    /\ hasArg(hist.g92[1].args, "X") /\ ~hasArg(hist.g92[1].args, "Y")
    /\ hist.g92[1].eng.curPos.X # Num(0)
    /\ eng.workPos.Y # Num(0)
    /\ eng.workPos.X # hist.g92[1].eng.workPos.X

\* C13: from a G92.2 until the next G92, G92.1, G92.3 or write to the
\* parameters 5211-5213 the work offset is zero, and the G92.3 that ends
\* such a stretch leaves the work offset at its value before the G92.2.
C13_SaveRestore ==
    /\ hist.saved # <<>> => eng.workPos = zeroPosition
    /\ hist.restored # <<>> => eng.workPos = hist.restored[1]

\* G92.3 has restored a work offset that was not zero
C13_Witness ==
    /\ hist.restored # <<>>
    /\ hist.restored[1] # zeroPosition
    /\ eng.workPos = hist.restored[1]

-----------------------------------------------------------------------------
(* Programs that change the modal state and end.                           *)

MaxModalLines == 3

ModalLines ==
    { <<G(20), G(18), G(91), TNL>>,                                  \* G20 G18 G91
      <<G(0), W("X", 1, 1), G(56), TNL>>,                            \* G0 X1 G56
      <<G(19), W("G", 593, 10), TNL>>,                               \* G19 G59.3
      <<M(4), TNL>>,                                                 \* M4
      <<M(2), TNL>>,                                                 \* M2
      <<M(30), G(21), TNL>>,                                         \* M30 G21
      <<G(21), TNL>> }                                               \* G21

NextModal ==
    \/ Feed(ModalLines, MaxModalLines)
    \/ ParseToken
    \/ Eof
    \/ Dispatch

SpecModal == Init /\ [][NextModal]_vars

\* C14 as stated: after M2 or M30 the spindle is off, the move mode linear,
\* the plane XY, the coordinate system the first, the units millimetres and
\* the distance mode absolute.
C14_EndResetsAll ==
    hist.ended =>
        /\ ~eng.spindleOn
        /\ eng.moveMode = "linearMove"
        /\ eng.arcPlane = "XYPlane"
        /\ eng.curCoordSys = 0
        /\ eng.units = Num(1)
        /\ eng.absoluteMode

\* C14 as amended: after M2 or M30 the spindle is off, the move mode linear,
\* the plane XY, the coordinate system the first and the distance mode
\* absolute; the units are the ones in force before the end of the program.
C14_EndResetsModal ==
    /\ [](hist.ended =>
            /\ ~eng.spindleOn
            /\ eng.moveMode = "linearMove"
            /\ eng.arcPlane = "XYPlane"
            /\ eng.curCoordSys = 0
            /\ eng.absoluteMode)
    /\ [][ (pc = "dispatch" /\ IsEndCode(Head(lineCodes))) => eng'.units = eng.units ]_vars

\* the program ended in inches, after a line that also left the plane and
\* the distance mode changed, with the spindle on
C14_Witness ==
    /\ hist.ended
    /\ eng.units = mmPerInch
    /\ calls # <<>>
    /\ calls[Len(calls)] = <<"spindleOff", 0>>

-----------------------------------------------------------------------------
(* Programs that select the coordinate system.                             *)

MaxSelectLines == 3

SelectLines ==
    { Set(curCoordSysParam, 2, 1),                                   \* #5220=2
      Set(curCoordSysParam, 10, 1),                                  \* #5220=10
      Set(curCoordSysParam, 5, 2),                                   \* #5220=2.5
      Set(curCoordSysParam, 0, 1),                                   \* #5220=0
      <<G(55), TNL>>,                                                \* G55
      <<W("G", 593, 10), G(1), W("X", 1, 1), TNL>>,                  \* G59.3 G1 X1
      <<G(10), W("L", 2, 1), W("P", 0, 1), W("X", 3, 1), TNL>>,      \* G10 L2 P0 X3
      <<M(30), TNL>> }                                               \* M30

NextSelect ==
    \/ Feed(SelectLines, MaxSelectLines)
    \/ ParseToken
    \/ Eof
    \/ Dispatch

SpecSelect == Init /\ [][NextSelect]_vars

\* G54, G55, ..., G59, G59.1, G59.2, G59.3 in tenths
SelectTenths == <<540, 550, 560, 570, 580, 590, 591, 592, 593>>

IsSelectCode(code) == \E i \in 1..CoordSysCount : IsGTenths(code, SelectTenths[i])

\* the system a selecting code names, counted from 0
SelectIndex(code) ==
    (CHOOSE i \in 1..CoordSysCount : IsGTenths(code, SelectTenths[i])) - 1

\* v is one of the integers 1..9
IsSystemNumber(v) == \E k \in 1..CoordSysCount : v = Num(k)

\* v is at least the number tolerance away from each of the integers 1..9
FarFromSystemNumbers(v) ==
    \A k \in 1..CoordSysCount : ~RLt(RAbs(RSub(v, Num(k))), minimumDelta)

\* the end of a line whose only assignment is #5220 = <number>
Write5220Step ==
    /\ hist'.lastAct = "eol"
    /\ Len(endFuncs) = 1
    /\ endFuncs[1].num = curCoordSysParam
    /\ endFuncs[1].op = "assign"
    /\ endFuncs[1].expr.t = "num"

\* C15: cur_coord_sys is always in 0..8.  A step changes it only by
\* dispatching one of G54...G59.3, by executing a write to parameter 5220, or
\* by dispatching M2 or M30.  G54...G59.3 set it to 0..8 respectively and
\* change nothing else; the write of an integer k in 1..9 to 5220 leaves the
\* engine exactly as that code would, with cur_coord_sys = k-1; M2 and M30
\* set it to 0; and the write of a value that is no integer in 1..9 (by at
\* least the number tolerance) is an error that leaves the engine unchanged.
C15_CoordSysRange ==
    /\ [](eng.curCoordSys \in 0..(CoordSysCount - 1))
    /\ [][ /\ eng'.curCoordSys # eng.curCoordSys =>
                \/ pc = "dispatch" /\ IsSelectCode(Head(lineCodes))
                \/ pc = "dispatch" /\ IsEndCode(Head(lineCodes))
                \/ \E i \in 1..Len(hist'.writes) :
                      hist'.writes[i].num = curCoordSysParam
           /\ (pc = "dispatch" /\ IsSelectCode(Head(lineCodes))) =>
                /\ eng' = [eng EXCEPT !.curCoordSys = SelectIndex(Head(lineCodes))]
                /\ calls' = calls
           /\ (pc = "dispatch" /\ IsEndCode(Head(lineCodes))) => eng'.curCoordSys = 0
           /\ (Write5220Step /\ IsSystemNumber(endFuncs[1].expr.v)) =>
                /\ pc' # "error"
                /\ eng' = [eng EXCEPT !.curCoordSys = endFuncs[1].expr.v[1] - 1]
           /\ (Write5220Step /\ FarFromSystemNumbers(endFuncs[1].expr.v)) =>
                /\ pc' = "error"
                /\ hist'.err # NoErr
                /\ eng' = eng
         ]_vars

\* #5220=2 was executed while system 9 was selected, and 9 had been selected
\* by G59.3
C15_Witness ==
    /\ eng.curCoordSys = 1
    /\ hist.lastAct = "eol"
    /\ hist.writes = <<[num |-> curCoordSysParam, val |-> Num(2)]>>
    /\ hist.lineEng.curCoordSys = 1
    /\ Len(calls) = 1
    /\ calls[1][1] = "linearTo"

-----------------------------------------------------------------------------
(* Programs that use numeric parameters outside the reserved list.         *)

MaxStoreLines == 3

StoreLines ==
    { Set(100, 7, 1),                                                \* #100=7
      Set(5230, 1, 1),                                               \* #5230=1
      Set(5600, 3, 2),                                               \* #5600=1.5
      Set(5401, 1, 1),                                               \* #5401=1
      <<TAssign(100, "assign", ERef(5230)), TNL>>,                   \* #100=#5230
      <<TAssign(100, "assign", ERef(5600)), TNL>>,                   \* #100=#5600
      <<TAssign(100, "assign", ERef(2)), TNL>>,                      \* #100=#2
      <<TAssign(1, "assign", ERef(100)), TNL>>,                      \* #1=#100
      <<G(20), G(0), W("X", 1, 1), TNL>> }                           \* G20 G0 X1

NextStore ==
    \/ Feed(StoreLines, MaxStoreLines)
    \/ ParseToken
    \/ Eof
    \/ Dispatch

SpecStore == Init /\ [][NextStore]_vars

\* the numbers the reserved list names
ReservedParams ==
    {homePosXParam, homePosYParam, homePosZParam,
     secondPosXParam, secondPosYParam, secondPosZParam,
     workPosEnabled, workPosXParam, workPosYParam, workPosZParam,
     curCoordSysParam, 5599}
      \cup {CoordSysParamOf(k, a) : k \in 1..CoordSysCount, a \in Axes}

\* the end of a line whose only assignment is #num = <expr>, num not reserved
StoreStep ==
    /\ hist'.lastAct = "eol"
    /\ Len(endFuncs) = 1
    /\ endFuncs[1].op = "assign"
    /\ endFuncs[1].num \notin ReservedParams

\* the expression is #k for a number k that is not reserved
ReadsStore(expr) ==
    /\ expr.t = "param"
    /\ expr.refs = 1
    /\ expr.e.t = "num"
    /\ expr.e.v[2] = 1
    /\ expr.e.v[1] \notin ReservedParams

\* C16: a numeric parameter outside the reserved list is a general-purpose
\* store.  Writing a number to it succeeds, the slot then reads as that
\* number, and nothing of the engine but the store changes; reading such a
\* parameter on the first line of a program, when nothing was written yet,
\* fails.
C16_GeneralStore ==
    [][ /\ (StoreStep /\ endFuncs[1].expr.t = "num") =>
              /\ pc' # "error"
              /\ getNumParam(eng', endFuncs[1].num) = Found(endFuncs[1].expr.v)
              /\ [eng' EXCEPT !.numParams = eng.numParams] = eng
        /\ (StoreStep /\ ReadsStore(endFuncs[1].expr) /\ fed = 1) =>
              /\ pc' = "error"
              /\ eng' = eng
      ]_vars

-----------------------------------------------------------------------------
(* Programs that set coordinate-system offsets with G10 L2.                *)

MaxL2Lines == 3

L2Lines ==
    { <<G(10), W("L", 2, 1), W("P", 0, 1), W("X", 3, 1), TNL>>,      \* G10 L2 P0 X3
      <<G(10), W("L", 2, 1), W("P", 2, 1), W("Y", 1, 1), W("Z", -1, 1), TNL>>,
                                                                     \* G10 L2 P2 Y1 Z-1
      <<G(10), W("L", 2, 1), W("P", 9, 1), W("X", 3, 2), TNL>>,      \* G10 L2 P9 X1.5
      <<G(10), W("L", 2, 1), W("P", 10, 1), W("X", 1, 1), TNL>>,     \* G10 L2 P10 X1
      <<G(10), W("L", 2, 1), W("X", 1, 1), TNL>>,                    \* G10 L2 X1
      <<G(55), G(1), W("X", 1, 1), W("Y", 1, 1), TNL>>,              \* G55 G1 X1 Y1
      <<G(20), G(91), TNL>>,                                         \* G20 G91
      <<G(92), W("X", 1, 1), TNL>>,                                  \* G92 X1
      <<M(3), G(18), G(0), W("Z", 2, 1), TNL>> }                     \* M3 G18 G0 Z2

NextL2 ==
    \/ Feed(L2Lines, MaxL2Lines)
    \/ ParseToken
    \/ Eof
    \/ Dispatch

SpecL2 == Init /\ [][NextL2]_vars

\* the value an axis word of G10 L2 gives the offset, else the old offset
L2Offset(args, letter, old) ==
    IF hasArg(args, letter) THEN RMul(ArgNum(args, letter), eng.units) ELSE old

\* the system P names: the current one for 0, system k for k in 1..9
L2System(args) ==
    IF ArgNum(args, "P") = Num(0) THEN eng.curCoordSys ELSE ArgNum(args, "P")[1] - 1

\* the words of the G10 being dispatched are L2 and P0...P9
IsL2(args) ==
    /\ pc = "dispatch"
    /\ IsG(Head(lineCodes), 10)
    /\ hasArg(args, "L")
    /\ ArgNum(args, "L") = Num(2)
    /\ hasArg(args, "P")
    /\ \E k \in 0..CoordSysCount : ArgNum(args, "P") = Num(k)

\* C17: G10 L2 Pk sets, for exactly the axes its words name, the offset of
\* system k (of the current system for P0) to the given values in machine
\* coordinates, that is in millimetres; no other system's offset, no unnamed
\* axis, neither cur_pos nor the work offset nor any modal state changes, and
\* no Machine call is issued.
C17_L2FrameEffect ==
    [][ pc = "dispatch" =>
        \A args \in {parseArgs(Tail(lineCodes), {"L", "P", "X", "Y", "Z"}).args} :
          IsL2(args) =>
            /\ pc' # "error"
            /\ eng' = [eng EXCEPT !.coordSysPos[L2System(args)] =
                         Pos(L2Offset(args, "X", @.X),
                             L2Offset(args, "Y", @.Y),
                             L2Offset(args, "Z", @.Z))]
            /\ calls' = calls
      ]_vars

\* G10 L2 P0 X3 was dispatched in inches with system 2 current, away from the
\* machine origin
C17_Witness ==
    /\ hist.lastAct = "dispatch"
    /\ eng.curCoordSys = 1
    /\ eng.coordSysPos[1].X = RMul(Num(3), mmPerInch)
    /\ eng.coordSysPos[0] = zeroPosition
    /\ eng.curPos.X # Num(0)
    /\ eng.units = mmPerInch
    /\ lineCodes = <<>>
    /\ pc # "error"

-----------------------------------------------------------------------------
(* Programs whose Machine calls may fail.                                  *)

MaxFailLines == 3

FailLines ==
    { <<G(1), W("X", 1, 1), W("F", 2, 1), TNL>>,                     \* G1 X1 F2
      <<G(0), W("X", 2, 1), W("Y", 1, 1), TNL>>,                     \* G0 X2 Y1
      <<G(28), W("X", 1, 1), TNL>>,                                  \* G28 X1
      <<G(30), TNL>>,                                                \* G30
      <<W("G", 301, 10), G(91), W("Z", 1, 1), TNL>>,                 \* G30.1 G91 Z1
      <<M(3), W("S", 100, 1), TNL>>,                                 \* M3 S100
      <<W("T", 1, 1), M(5), TNL>>,                                   \* T1 M5
      <<W("Q", 1, 1), G(20), TNL>> }                                 \* Q1 G20

NextFail ==
    \/ Feed(FailLines, MaxFailLines)
    \/ ParseToken
    \/ Eof
    \/ Dispatch

SpecFail == Init /\ [][NextFail]_vars

MoveCommands == {"rapidTo", "linearTo"}

\* the Machine calls of the step being taken
StepCalls == SubSeq(calls', Len(calls) + 1, Len(calls'))

\* the position before the n-th call of the step: where the last move among
\* the calls before it went, else the position before the step
PosBeforeCall(n) ==
    IF \E i \in 1..(n - 1) : StepCalls[i][1] \in MoveCommands
    THEN StepCalls[CHOOSE i \in 1..(n - 1) :
                      /\ StepCalls[i][1] \in MoveCommands
                      /\ \A j \in (i + 1)..(n - 1) : StepCalls[j][1] \notin MoveCommands][2]
    ELSE eng.curPos

-----------------------------------------------------------------------------
(* Programs with F words.                                                  *)

MaxFeedLines == 3

FeedLines ==
    { <<G(1), W("X", 1, 1), W("F", 2, 1), TNL>>,                     \* G1 X1 F2
      <<G(1), W("F", 2, 1), W("X", 2, 1), TNL>>,                     \* G1 F2 X2
      <<G(0), W("X", 1, 1), W("F", 3, 1), TNL>>,                     \* G0 X1 F3
      <<W("F", 2, 1), TNL>>,                                         \* F2
      <<W("X", 3, 1), W("F", 1, 2), TNL>>,                           \* X3 F0.5
      <<G(2), W("X", 1, 1), W("I", 1, 1), W("F", 2, 1), TNL>>,       \* G2 X1 I1 F2
      <<G(20), G(0), W("Y", 1, 1), TNL>>,                            \* G20 G0 Y1
      <<G(28), W("F", 1, 1), TNL>> }                                 \* G28 F1

NextFeed ==
    \/ Feed(FeedLines, MaxFeedLines)
    \/ ParseToken
    \/ Eof
    \/ Dispatch

SpecFeed == Init /\ [][NextFeed]_vars

FeedModes == {"linearMove", "clockwiseArcMove", "counterClockwiseArcMove"}

\* the feed set by the last set_feed call of cl, if any
PrevFeed(cl) ==
    IF \E i \in 1..Len(cl) : cl[i][1] = "setFeed"
    THEN <<cl[CHOOSE i \in 1..Len(cl) :
                 /\ cl[i][1] = "setFeed"
                 /\ \A j \in (i + 1)..Len(cl) : cl[j][1] # "setFeed"][2]>>
    ELSE <<>>

IsArcMotion(e, cs) ==
    \/ IsG(Head(cs), 2) \/ IsG(Head(cs), 3)
    \/ /\ Head(cs).Letter \in {"F", "I", "J", "K", "P", "R", "X", "Y", "Z"}
       /\ e.moveMode \in {"clockwiseArcMove", "counterClockwiseArcMove"}

\* the words that follow the code being dispatched, the code itself
\* included when it is a word
StepWords(cs) ==
    parseArgs(IF Head(cs).Letter = "G" THEN Tail(cs) ELSE cs, ArgLetters).args

-----------------------------------------------------------------------------
(* Programs that drive the spindle.                                        *)

MaxSpindleLines == 3

SpindleLines ==
    { <<M(3), TNL>>,                                                 \* M3
      <<M(4), TNL>>,                                                 \* M4
      <<M(5), TNL>>,                                                 \* M5
      <<W("S", 100, 1), TNL>>,                                       \* S100
      <<W("S", 200, 1), M(3), W("S", 3, 2), TNL>>,                   \* S200 M3 S1.5
      <<W("S", -1, 1), TNL>>,                                        \* S-1
      <<M(4), G(0), W("X", 1, 1), W("T", 1, 1), TNL>>,               \* M4 G0 X1 T1
      <<M(30), TNL>> }                                               \* M30

NextSpindle ==
    \/ Feed(SpindleLines, MaxSpindleLines)
    \/ ParseToken
    \/ Eof
    \/ Dispatch

SpecSpindle == Init /\ [][NextSpindle]_vars

\* the speed of the S word being dispatched, else of the S word given last,
\* else the initial speed 0
GivenSpeed(code) ==
    IF code.Letter = "S" THEN code.Value
    ELSE IF hist.sWord # <<>> THEN hist.sWord[1] ELSE Num(0)

\* the direction of the M3 or M4 being dispatched, else of the one given last
GivenDirection(code) ==
    IF IsM(code, 3) THEN TRUE
    ELSE IF IsM(code, 4) THEN FALSE
    ELSE IF hist.mWord # <<>> THEN hist.mWord[1] ELSE TRUE

\* C20: set_spindle is called exactly when M3 or M4 is dispatched and when an
\* S word is dispatched while the spindle is on, once, with the speed of the
\* most recent S word (0 when there was none) and the direction of the most
\* recent M3 or M4.  An S word dispatched while the spindle is off issues no
\* Machine call, and the next M3 or M4 passes its speed.
C20_SetSpindle ==
    [][ pc = "dispatch" =>
        \A code \in {Head(lineCodes)} :
          IF \/ IsM(code, 3)
             \/ IsM(code, 4)
             \/ code.Letter = "S" /\ ~RLt(code.Value, Num(0)) /\ eng.spindleOn
          THEN StepCalls = <<<<"setSpindle", <<GivenSpeed(code), GivenDirection(code)>>>>>>
          ELSE /\ \A i \in 1..Len(StepCalls) : StepCalls[i][1] # "setSpindle"
               /\ code.Letter = "S" => StepCalls = <<>>
      ]_vars

\* S100 was dispatched with the spindle off and issued no call; the M4 after
\* it passed 100
C20_Witness ==
    /\ hist.lastAct = "dispatch"
    /\ hist.sWord = <<Num(100)>>
    /\ hist.mWord = <<FALSE>>
    /\ calls = <<<<"setSpindle", <<Num(100), FALSE>>>>>>
    /\ eng.spindleOn

-----------------------------------------------------------------------------
(* Programs that go to the predefined positions.                           *)

MaxHomeLines == 3

HomeLines ==
    { <<G(0), W("X", 2, 1), W("Y", 1, 1), TNL>>,                     \* G0 X2 Y1
      Set(homePosXParam, 5, 1),                                      \* #5161=5
      <<W("G", 301, 10), G(91), TNL>>,                               \* G30.1 G91
      <<G(28), TNL>>,                                                \* G28
      <<G(30), TNL>>,                                                \* G30
      <<G(28), W("X", 1, 1), TNL>>,                                  \* G28 X1
      <<G(30), W("Y", 3, 1), W("Z", 1, 1), TNL>>,                    \* G30 Y3 Z1
      <<G(28), W("X", 2, 1), W("Y", 1, 1), W("Z", 0, 1), TNL>>,      \* G28 X2 Y1 Z0
      <<G(55), G(10), W("L", 2, 1), W("P", 0, 1), W("Z", 1, 1), TNL>> }
                                                                     \* G55 G10 L2 P0 Z1

NextHome ==
    \/ Feed(HomeLines, MaxHomeLines)
    \/ ParseToken
    \/ Eof
    \/ Dispatch

SpecHome == Init /\ [][NextHome]_vars

\* the step that dispatched G28 or G30 with well-formed axis words and whose
\* Machine calls all succeeded
PredefinedStep ==
    /\ pc = "dispatch"
    /\ IsG(Head(lineCodes), 28) \/ IsG(Head(lineCodes), 30)
    /\ pc' \notin {"error", "crash"}

\* the position G28 or G30 goes to
Predefined == IF IsG(Head(lineCodes), 28) THEN eng.homePos ELSE eng.secondPos

\* the rapid moves through the positions path that start at from: a move to
\* the position the machine is already at is not issued
RECURSIVE Rapids(_, _)
Rapids(from, path) ==
    IF path = <<>> THEN <<>>
    ELSE IF Head(path) = from THEN Rapids(from, Tail(path))
    ELSE <<<<"rapidTo", Head(path)>>>> \o Rapids(Head(path), Tail(path))

\* C21 as stated: G28 (G30) without an axis word issues a single rapid to
\* home_pos (second_pos); with axis words it issues a rapid to the
\* intermediate point and then a rapid to home_pos (second_pos); in both
\* cases cur_pos ends equal to home_pos (second_pos).
C21_EndsAtPredefined ==
    [][ PredefinedStep =>
        \A args \in {parseArgs(Tail(lineCodes), {"X", "Y", "Z"}).args} :
          /\ eng'.curPos = Predefined
          /\ StepCalls = IF args = <<>>
                         THEN <<<<"rapidTo", Predefined>>>>
                         ELSE <<<<"rapidTo", wordPos(eng, args, eng.absoluteMode)>>,
                                <<"rapidTo", Predefined>>>>
      ]_vars

\* the predefined position on the axes the words name, the current position
\* on the others
NamedAxesAt(args, pos) ==
    Pos(IF hasArg(args, "X") THEN pos.X ELSE eng.curPos.X,
        IF hasArg(args, "Y") THEN pos.Y ELSE eng.curPos.Y,
        IF hasArg(args, "Z") THEN pos.Z ELSE eng.curPos.Z)

\* C21, amended: G28 (G30) without an axis word rapids to home_pos
\* (second_pos).  With axis words it rapids to the intermediate point, which
\* is the current position with the named axes at the given values, and then
\* to the point that has the named axes at home_pos (second_pos) and the
\* others where they were: cur_pos ends there.  A rapid to the position the
\* machine is already at is not issued.
C21_NamedAxesGoHome ==
    [][ PredefinedStep =>
        \A args \in {parseArgs(Tail(lineCodes), {"X", "Y", "Z"}).args} :
          IF args = <<>>
          THEN /\ eng'.curPos = Predefined
               /\ StepCalls = Rapids(eng.curPos, <<Predefined>>)
          ELSE /\ eng'.curPos = NamedAxesAt(args, Predefined)
               /\ StepCalls = Rapids(eng.curPos,
                                     <<wordPos(eng, args, eng.absoluteMode),
                                       NamedAxesAt(args, Predefined)>>)
      ]_vars

\* G28 X1 was dispatched at (2, 1, 0) with home at (5, 0, 0): the machine
\* went to (1, 1, 0) and then to (5, 1, 0), which is not home
C21_Witness ==
    /\ hist.lastAct = "dispatch"
    /\ eng.homePos = Pos(Num(5), Num(0), Num(0))
    /\ eng.curPos = Pos(Num(5), Num(1), Num(0))
    /\ Len(calls) = 3
    /\ calls[2] = <<"rapidTo", Pos(Num(1), Num(1), Num(0))>>
    /\ calls[3] = <<"rapidTo", eng.curPos>>

-----------------------------------------------------------------------------
(* Programs with codes the engine does not interpret.                      *)

MaxUnknownLines == 2

UnknownLines ==
    { <<G(4), W("P", 1, 1), TNL>>,                                   \* G4 P1
      <<M(7), TNL>>,                                                 \* M7
      <<W("Q", 1, 1), G(20), TNL>>,                                  \* Q1 G20
      <<W("L", 2, 1), W("X", 1, 1), TNL>>,                           \* L2 X1
      <<W("G", 51, 10), G(91), G(1), W("Y", 2, 1), TNL>>,            \* G5.1 G91 G1 Y2
      <<M(3), W("E", 1, 1), TNL>> }                                  \* M3 E1

NextUnknown ==
    \/ Feed(UnknownLines, MaxUnknownLines)
    \/ ParseToken
    \/ Eof
    \/ Dispatch

SpecUnknown == Init /\ [][NextUnknown]_vars

\* the G numbers, in tenths, and the M numbers and the letters that Evaluate
\* interprets
EngineGTenths ==
    {0, 10, 20, 30, 100, 170, 180, 190, 200, 210, 280, 281, 300, 301, 530,
     540, 550, 560, 570, 580, 590, 591, 592, 593, 900, 901, 910, 911,
     920, 921, 922, 923}
EngineMNumbers == {2, 3, 4, 5, 30}
EngineLetters == {"G", "M", "F", "I", "J", "K", "P", "R", "S", "T", "X", "Y", "Z"}

IsUnknownCode(code) ==
    CASE code.Letter = "G" -> ~\E t \in EngineGTenths : IsGTenths(code, t)
      [] code.Letter = "M" -> ~\E n \in EngineMNumbers : IsM(code, n)
      [] OTHER -> code.Letter \notin EngineLetters

\* the codes that are left when the hook has taken the first n
Returned(cs, n) == SubSeq(cs, (IF n < Len(cs) THEN n ELSE Len(cs)) + 1, Len(cs))

-----------------------------------------------------------------------------
(* Programs with malformed argument lists.                                 *)

MaxArgsLines == 3

WS(letter) == TCode(letter, EStr)

ArgsLines ==
    { <<G(1), W("X", 1, 1), W("Y", 1, 1), W("F", 2, 1), TNL>>,       \* G1 X1 Y1 F2
      <<G(0), W("X", 1, 1), W("X", 2, 1), TNL>>,                     \* G0 X1 X2
      <<G(0), W("Z", 1, 1), W("L", 0, 1), TNL>>,                     \* G0 Z1 L0
      <<G(1), W("F", 3, 1), W("X", 2, 1), WS("Y"), TNL>>,            \* G1 F3 X2 Y"s"
      <<G(28), W("X", 2, 1), W("F", 8, 1), TNL>>,                    \* G28 X2 F8
      <<G(10), W("L", 2, 1), W("P", 1, 1), W("X", 1, 1), W("P", 2, 1), TNL>>,
                                                                     \* G10 L2 P1 X1 P2
      <<G(92), W("X", 1, 1), WS("Z"), TNL>>,                         \* G92 X1 Z"s"
      <<G(20), W("Z", 2, 1), W("X", 1, 1), W("Z", 2, 1), TNL>>,      \* G20 Z2 X1 Z2
      <<G(2), W("X", 1, 1), W("I", 1, 1), W("L", 1, 1), TNL>> }      \* G2 X1 I1 L1

NextArgs ==
    \/ Feed(ArgsLines, MaxArgsLines)
    \/ ParseToken
    \/ Eof
    \/ Dispatch

SpecArgs == Init /\ [][NextArgs]_vars

ArcLetters == {"F", "I", "J", "K", "P", "R", "X", "Y", "Z"}
ArcModes == {"clockwiseArcMove", "counterClockwiseArcMove"}

\* does the dispatch of cs[1] hand an argument list to parseArgs
TakesArgs(e, cs) ==
    \/ \E n \in {0, 1, 2, 3, 10, 28, 30, 92} : IsG(Head(cs), n)
    \/ Head(cs).Letter \in {"F", "X", "Y", "Z"} /\ e.moveMode = "linearMove"
    \/ Head(cs).Letter \in {"X", "Y", "Z"} /\ e.moveMode = "rapidMove"
    \/ Head(cs).Letter \in ArcLetters /\ e.moveMode \in ArcModes

\* the letters parseArgs is told to allow
AllowedArgs(e, cs) ==
    CASE IsG(Head(cs), 0) \/ IsG(Head(cs), 1) -> {"F", "X", "Y", "Z"}
      [] IsG(Head(cs), 2) \/ IsG(Head(cs), 3) -> ArcLetters
      [] IsG(Head(cs), 10) -> {"L", "P", "X", "Y", "Z"}
      [] IsG(Head(cs), 28) \/ IsG(Head(cs), 30) \/ IsG(Head(cs), 92) -> {"X", "Y", "Z"}
      [] OTHER -> IF e.moveMode \in ArcModes THEN ArcLetters ELSE {"F", "X", "Y", "Z"}

\* the argument list: the argument words from the start of cs
RECURSIVE ArgList(_)
ArgList(cs) ==
    IF cs = <<>> \/ Head(cs).Letter \notin ArgLetters THEN <<>>
    ELSE <<Head(cs)>> \o ArgList(Tail(cs))

\* a letter given twice, a letter that is not allowed, or a value that is
\* no number
Malformed(list, allowed) ==
    \E i \in 1..Len(list) :
       \/ list[i].Letter \notin allowed
       \/ ~IsNumber(list[i].Value)
       \/ \E j \in 1..(i - 1) : list[j].Letter = list[i].Letter

ArgErrors == {"arg not allowed", "duplicate arg specified", "expected a number"}

\* positions and offsets
Places(e) == <<e.curPos, e.homePos, e.secondPos, e.workPos, e.savedWorkPos,
               e.coordSysPos>>

\* C23: a command whose argument list has a duplicated letter, a letter that
\* is not allowed for the command, or a value that is no number returns an
\* error; the command issues no Machine call and changes no position and no
\* offset.
C23_MalformedArgs ==
    [][ ( /\ pc = "dispatch"
          /\ IsNumber(Head(lineCodes).Value)
          /\ TakesArgs(eng, lineCodes)
          /\ Malformed(ArgList(IF Head(lineCodes).Letter = "G"
                               THEN Tail(lineCodes) ELSE lineCodes),
                       AllowedArgs(eng, lineCodes)) ) =>
          /\ pc' = "error"
          /\ hist'.err \in ArgErrors
          /\ calls' = calls
          /\ Places(eng') = Places(eng)
      ]_vars

\* G1 F3 X2 Y"s" was rejected away from the origin: no set_feed, no move
C23_Witness ==
    /\ pc = "error"
    /\ hist.lastAct = "dispatch"
    /\ hist.err = "expected a number"
    /\ lineCodes = <<Code("F", Num(3)), Code("X", Num(2)), Code("Y", StringValue)>>
    /\ Len(calls) = 2
    /\ calls[1][1] = "setFeed"
    /\ eng.curPos = calls[2][2]
    /\ eng.curPos # zeroPosition

-----------------------------------------------------------------------------
(* Programs with N directives.                                             *)

MaxNumLines == 3

NumLines ==
    { <<TN(1), G(20), TNL>>,                                 \* N1 G20
      <<TN(2), G(21), TChecksum, TNL>>,                      \* N2 G21 *7
      <<TN(4), TNL>>,                                        \* N4
      <<G(90), TNL>>,                                        \* G90
      <<G(91), TN(4), TNL>>,                                 \* G91 N4
      <<TComment("", "c"), TN(2), G(20), TNL>>,              \* (c) N2 G20
      <<TChecksum, TN(4), TNL>>,                             \* *5 N4
      <<G(20), TTail("msg", "a"), TNL>>,                     \* G20 ;msg,a
      <<TWhile(ENum(Num(0))), G(20), TNL, TEnd>> }           \* WHILE 0 DO / G20 / END

NextNum ==
    \/ Feed(NumLines, MaxNumLines)
    \/ ParseToken
    \/ Eof
    \/ Dispatch

SpecNum == Init /\ [][NextNum]_vars

\* the step is a round of Parser.parse on the token Head(src)
ParsesToken == pc = "parse" /\ stack = <<>> /\ src # <<>> /\ src' # src

\* C24: the virtual line never goes back and grows with every newline that
\* ends a line of codes; an N directive is accepted only with a number above
\* the virtual line, so the numbers of the accepted directives grow strictly
\* from each line that carries one to the next; a directive whose number is
\* not above the virtual line is rejected.
C24_LineNumbers ==
    [][ParsesToken =>
          \E t \in {Head(src)} :
             /\ virtualLine' >= virtualLine
             /\ t.k \in {"nl", "tail"} => virtualLine' > virtualLine
             /\ t.k = "n" /\ pc' # "error" =>
                    /\ t.num > virtualLine
                    /\ hist'.lineNums = Append(hist.lineNums, t.num)
                    /\ \A i \in 1..Len(hist.lineNums) : hist.lineNums[i] < t.num
             /\ t.k = "n" /\ t.num <= virtualLine =>
                    pc' = "error" /\ hist'.lineNums = hist.lineNums]_vars

\* two directives were accepted and a third, not above the virtual line, was
\* rejected
C24_Witness ==
    /\ pc = "error"
    /\ hist.err = "N invalid"
    /\ hist.lineNums = <<1, 2>>

-----------------------------------------------------------------------------
(* Programs with keyword lines, comments and newlines.                     *)

MaxBlockLines == 3

\* what the source supplies at a time: a line, or a WHILE block
BlockLines ==
    { <<TAssign(1, "assign", ENum(Num(1))), TNL>>,                     \* #1=1
      <<TWhile(ERef(1)), TAssign(1, "assign", ENum(Num(0))), TNL,
        TEnd>>,                                       \* WHILE #1 DO / #1=0 / END
      <<TWhile(ENum(Num(0))), TN(9), G(20), TNL, TEnd>>,
                                                      \* WHILE 0 DO / N9 G20 / END
      <<TWhile(ENum(Num(0))), TEnd>>,                 \* WHILE 0 DO / END
      <<TN(9), G(21), TNL>>,                          \* N9 G21
      <<G(20), TNL>>,                                 \* G20
      <<G(21), TChecksum, G(90), TNL>>,               \* G21 *7 G90
      <<G(20), TTail("msg", "a"), TNL>>,              \* G20 ;msg,a
      <<G(90), TTail("", "c"), TNL>> }                \* G90 ;c

NextBlock ==
    \/ Feed(BlockLines, MaxBlockLines)
    \/ ParseToken
    \/ StackStep
    \/ Eof
    \/ Dispatch

SpecBlock == Init /\ [][NextBlock]_vars

\* the step reads a newline of the source
ReadsNewline ==
    /\ ParsesToken
    /\ hist'.lastAct # "parseError"
    /\ Head(src).k \in {"nl", "while", "end", "tail"}

\* C25: every newline read leaves the parser in the before-line-num state,
\* the newline that ends a WHILE ... DO header or an END line included.
C25_NewlineResets == [][ReadsNewline => lineState' = "beforeLineNum"]_vars

\* the source line, counted from 1, of the token read next
SourceLine == hist.fedLines - Newlines(src) + 1

\* C26: the parser's count of physical lines is the number of newlines read,
\* and the line in front of a parser error is the line of the source, counted
\* from 1, that holds the offending token.
C26_ErrorLine ==
    [][ParsesToken =>
          /\ hist'.lastAct # "parseError" /\ Head(src).k # "tail" =>
                 physicalLine' = hist'.fedLines - Newlines(src')
          /\ hist'.lastAct = "parseError" =>
                 hist'.errWhere[1] = SourceLine]_vars

-----------------------------------------------------------------------------
(* Programs with checksums.                                                *)

MaxSumLines == 3

SumLines ==
    { <<G(90), TChecksum, TNL>>,                             \* G90 *20
      <<G(90), G(21), TChecksum, TTail("", "comment"), TNL>>,  \* G90 G21 *20 ;comment
      <<G(90), TChecksum, G(21), TNL>>,                      \* G90 *20 G21
      <<TChecksum, G(90), TNL>>,                             \* *123 G90
      <<TChecksum, TWhile(ENum(Num(0))), TEnd>>,             \* *123 WHILE 0 DO / END
      <<TChecksum, TAssign(1, "assign", ENum(Num(2))), TNL>>,  \* *5 #1=2
      <<TChecksum, TN(4), TNL>>,                             \* *5 N4
      <<G(20), TChecksum, TChecksum, TNL>>,                  \* G20 *20 *30
      <<TChecksum, TComment("msg", "hi"), G(21), TNL>>,      \* *5 (msg,hi) G21
      <<G(91), TChecksum, TComment("", "c"), TNL>>,          \* G91 *5 (c)
      <<TN(4), G(91), TNL>> }                                \* N4 G91

NextSum ==
    \/ Feed(SumLines, MaxSumLines)
    \/ ParseToken
    \/ Eof
    \/ Dispatch

SpecSum == Init /\ [][NextSum]_vars

\* the step reads the token Head(src) after a checksum on the same line
AfterChecksum == ParsesToken /\ lineState = "afterChecksum"

\* C27: a second checksum on a line is rejected.
C27_OneChecksum ==
    [][AfterChecksum /\ Head(src).k = "checksum" => pc' = "error"]_vars

\* C28: after a checksum, anything on the same line but a comment or the end
\* of the line is an error, and the end of the line leaves the parser in the
\* before-line-num state.
C28_ChecksumLast ==
    [][AfterChecksum =>
          \E t \in {Head(src)} :
             /\ t.k \notin {"comment", "tail", "nl"} => pc' = "error"
             /\ t.k \in {"comment", "tail", "nl"} => pc' # "error"
             /\ t.k \in {"tail", "nl"} => lineState' = "beforeLineNum"]_vars

-----------------------------------------------------------------------------
(* Programs that end anywhere: between lines, within a line, within a loop. *)

MaxEofLines == 3

\* pieces of source, with and without the newline at their end
EofLines ==
    { <<G(20), TNL>>,                                        \* G20
      <<G(21)>>,                                             \* G21, no newline
      <<G(1), W("X", 1, 1)>>,                                \* G1 X1, no newline
      <<TN(3), G(91), TChecksum>>,                           \* N3 G91 *7, no newline
      <<TComment("msg", "m")>>,                              \* (msg,m), no newline
      <<TAssign(1, "assign", ENum(Num(1))), TNL>>,           \* #1=1
      <<TWhile(ERef(1)), TAssign(1, "assign", ENum(Num(0))), TNL>>,
                                                             \* WHILE #1 DO / #1=0
      <<TEnd>> }                                             \* END

NextEof ==
    \/ Feed(EofLines, MaxEofLines)
    \/ ParseToken
    \/ StackStep
    \/ Eof
    \/ Dispatch

SpecEof == Init /\ [][NextEof]_vars

\* the source is exhausted where Parse reads it, and supplies nothing more
SourceEnds == pc = "parse" /\ stack = <<>> /\ src = <<>> /\ fed' = fed

C37_NoCodeDropped ==
    [][(SourceEnds /\ pc' = "done") => codes = <<>> /\ lineCodes = <<>>]_vars

-----------------------------------------------------------------------------
(* Programs with comments that write to the text sinks.                    *)

MaxTextLines == 3

debugParam == 5599

TextLines ==
    { <<TAssign(debugParam, "assign", ENum(Num(0))), TNL>>,  \* #5599=0
      <<TAssign(debugParam, "assign", ENum(Num(1))), TNL>>,  \* #5599=1
      <<TComment("debug", "d"), TNL>>,                       \* (debug,d)
      <<TComment("msg", "m"), G(20), TNL>>,                  \* (msg,m) G20
      <<TComment("", "c"), G(21), TNL>>,                     \* (c) G21
      <<G(20), TTail("print", "p"), TNL>>,                   \* G20 ;print,p
      <<G(21), TTail("debug", "t"), TNL>> }                  \* G21 ;debug,t

NextText ==
    \/ Feed(TextLines, MaxTextLines)
    \/ ParseToken
    \/ Eof
    \/ Dispatch

SpecText == Init /\ [][NextText]_vars

\* parameter 5599, as the parser reads it from the engine, is not zero
DebugOn(g) == g.ok /\ ~NumberEqual(g.val, Num(0))

\* C30: a debug comment is written to OUT exactly when parameter 5599 is not
\* zero as the comment is evaluated; a msg comment is always written to OUT
\* and a print comment to ERR.
C30_DebugGated ==
    [][ParsesToken /\ hist'.lastAct = "comment" =>
          \E t \in {Head(src)} : \E g \in {getNumParam(eng, debugParam)} :
             /\ t.cmd = "debug" /\ DebugOn(g) =>
                    outW' = Append(outW, t.body) /\ errW' = errW
             /\ t.cmd = "debug" /\ ~DebugOn(g) => outW' = outW /\ errW' = errW
             /\ t.cmd = "msg" => outW' = Append(outW, t.body) /\ errW' = errW
             /\ t.cmd = "print" => errW' = Append(errW, t.body) /\ outW' = outW]_vars

-----------------------------------------------------------------------------
(* Number.Equal on its own.                                                *)

\* the numbers compared: 0, 1, 2, their neighbours within and at the
\* tolerance, and the negatives
EqualNumbers ==
    { Num(0), Num(1), Num(-1), Num(2), Num(-2),
      Rat(1, 20000), Rat(-1, 20000), Rat(1, 10000),
      Rat(100005, 100000), Rat(99995, 100000), Rat(-100005, 100000),
      Rat(3, 2) }

InitEqual == InitApply({<<a, b>> : a \in EqualNumbers, b \in EqualNumbers})

ApplyEqual == Returns(NumberEqual(inputs[1], inputs[2]))

NextEqual == ApplyEqual

SpecEqual == InitEqual /\ [][NextEqual]_vars

\* |a - b| < 0.0001
WithinTolerance(a, b) == RLt(RAbs(RSub(a, b)), minimumDelta)

\* C31: Equal(a, b) is true exactly when |a - b| < 0.0001.
C31_EqualIsDistance ==
    output # <<>> => (output[1] <=> WithinTolerance(inputs[1], inputs[2]))

-----------------------------------------------------------------------------
(* The comparison operators and the loop test on numbers close together.   *)

CompareOps ==
    {"equal", "notEqual", "lessThan", "lessEqual", "greaterThan", "greaterEqual"}

\* a and b are compared with c by op, and each is the test of a WHILE
InitCompare ==
    InitApply({<<a, b, c, op>> : a \in EqualNumbers, b \in EqualNumbers,
                                 c \in {Num(0), Num(1)}, op \in CompareOps})

\* does a WHILE whose test evaluated to v run its body
Loops(v) ==
    whileTested(Val(v), <<>>, [eng |-> NewEngine, codes |-> <<>>,
                               endFuncs |-> <<>>, stack |-> <<>>]).stack # <<>>

Compared(a, b, c, op) ==
    [ a |-> Eval(EBinary(op, ENum(a), ENum(c)), NewEngine).v,
      b |-> Eval(EBinary(op, ENum(b), ENum(c)), NewEngine).v,
      aLoops |-> Loops(a),
      bLoops |-> Loops(b) ]

ApplyCompare == Returns(Compared(inputs[1], inputs[2], inputs[3], inputs[4]))

NextCompare == ApplyCompare

SpecCompare == InitCompare /\ [][NextCompare]_vars

\* C32: two numbers within the tolerance of each other give the same result
\* in every comparison and take the same branch as the test of a WHILE.
C32_ToleranceStable ==
    output # <<>> /\ WithinTolerance(inputs[1], inputs[2]) =>
        /\ output[1].a = output[1].b
        /\ output[1].aLoops = output[1].bLoops

-----------------------------------------------------------------------------
(* The precedence-adjustment pass on the trees parseSubExpr builds.        *)

opPrecedence(op) ==
    CASE op = "or" -> 1
      [] op = "and" -> 2
      [] op = "not" -> 3
      [] op \in {"equal", "notEqual"} -> 4
      [] op \in {"greaterThan", "greaterEqual", "lessThan", "lessEqual"} -> 5
      [] op \in {"subtract", "add"} -> 7
      [] op \in {"divide", "multiply"} -> 8
      [] op = "negate" -> 9
      [] op = "noOp" -> 11

IsBinary(e) == e.t = "binary"

\* as rotatesLeft, but leaving operators of equal precedence as parsed
rotatesLeftStrictly(e, b) ==
    IsBinary(b) /\ opPrecedence(b.op) < opPrecedence(e.op)

\* adjustPrecedence on the binary e with right operand b:
\* 1 * [2 + 3] --> [1 * 2] + 3
rotatesLeft(e, b) == IsBinary(b) /\ opPrecedence(b.op) <= opPrecedence(e.op)

\* adjustPrecedence on the binary e with left operand b:
\* [1 + 2] * 3 --> 1 + [2 * 3]
rotatesRight(e, b) == IsBinary(b) /\ opPrecedence(b.op) < opPrecedence(e.op)

\* adjustPrecedence on the unary e with operand b: - [2 * 3] --> [- 2] * 3
rotatesUnary(e, b) ==
    e.op # "noOp" /\ IsBinary(b) /\ opPrecedence(b.op) < opPrecedence(e.op)

\* the pairs of an operator and an operand that the pass would rotate
RECURSIVE Inversions(_)
Inversions(e) ==
    CASE e.t = "binary" ->
           Inversions(e.l) + Inversions(e.r)
           + (IF rotatesLeft(e, e.r) THEN 1 ELSE 0)
           + (IF rotatesRight(e, e.l) THEN 1 ELSE 0)
      [] e.t = "unary" ->
           Inversions(e.e) + (IF rotatesUnary(e, e.e) THEN 1 ELSE 0)
      [] OTHER -> 0

\* the expression in which sub stands at the end of path: path lists, from
\* the inside out, the nodes above sub and the side sub is on
RECURSIVE Plug(_, _)
Plug(path, sub) ==
    IF path = <<>> THEN sub
    ELSE Plug(Tail(path),
              CASE Head(path).side = "l" -> [Head(path).node EXCEPT !.l = sub]
                [] Head(path).side = "r" -> [Head(path).node EXCEPT !.r = sub]
                [] Head(path).side = "e" -> [Head(path).node EXCEPT !.e = sub])

Above(node, side, path) == <<[node |-> node, side |-> side]>> \o path

\* a rotation that turns from into to below path, as the whole expression
\* before and after it
Rotation(path, from, to) ==
    [before |-> Plug(path, from), after |-> Plug(path, to)]

Adjusted(tree, steps) == [tree |-> tree, steps |-> steps]

RECURSIVE adjustSteps(_, _)

\* the end of a rotation: a is the pass over the rotated node
rotatedTo(a, step, steps) == Adjusted(a.tree, steps \o <<step>> \o a.steps)

\* as rotated, but returning the rotated node as it is
rotatedOnce(path, from, to, steps) ==
    Adjusted(to, steps \o <<Rotation(path, from, to)>>)

\* "return adjustPrecedence(b)": from was rotated into to
rotated(path, from, to, steps) ==
    rotatedTo(adjustSteps(to, path), Rotation(path, from, to), steps)

\* case *unary, x being the pass over the operand
adjustUnary(e, path, x) ==
    IF rotatesUnary(e, x.tree)
    THEN rotated(path, [e EXCEPT !.e = x.tree],
                 [x.tree EXCEPT !.l = [e EXCEPT !.e = x.tree.l]], x.steps)
    ELSE Adjusted([e EXCEPT !.e = x.tree], x.steps)

\* case *binary, both operands of n adjusted
adjustBinaryBoth(n, path, steps) ==
    IF rotatesLeft(n, n.r)
    THEN rotated(path, n, [n.r EXCEPT !.l = [n EXCEPT !.r = n.r.l]], steps)
    ELSE IF rotatesRight(n, n.l)
    THEN rotated(path, n, [n.l EXCEPT !.r = [n EXCEPT !.l = n.l.r]], steps)
    ELSE Adjusted(n, steps)

\* case *binary, l and r being the passes over the operands
adjustRight(n, path, l, r) ==
    adjustBinaryBoth([n EXCEPT !.r = r.tree], path, l.steps \o r.steps)

\* case *binary, l being the pass over the left operand
adjustBinary(e, path, l) ==
    adjustRight([e EXCEPT !.l = l.tree], path, l,
                adjustSteps(e.r, Above([e EXCEPT !.l = l.tree], "r", path)))

\* adjustPrecedence on the node e below path: the adjusted node and the
\* rotations made on the way
adjustSteps(e, path) ==
    CASE e.t = "unary" -> adjustUnary(e, path, adjustSteps(e.e, Above(e, "e", path)))
      [] e.t = "binary" -> adjustBinary(e, path, adjustSteps(e.l, Above(e, "l", path)))
      [] OTHER -> Adjusted(e, <<>>)

adjustPrecedence(e) == adjustSteps(e, <<>>).tree

MaxOperators == 3

ChainOps == {"equal", "add", "subtract", "multiply"}

Leaf == ENum(Num(2))

\* a number, or [2 + 2]
Atoms == {Leaf, EUnary("noOp", EBinary("add", Leaf, Leaf))}

\* what parseSubExpr returns for a text with at most n operators outside
\* brackets: an operand, an operand and an operator and the rest of the
\* text, or a sign and the rest
RECURSIVE SubExprs(_)
SubExprs(n) ==
    IF n = 0 THEN Atoms
    ELSE Atoms
         \cup {EBinary(op, a, t) : op \in ChainOps, a \in Atoms, t \in SubExprs(n - 1)}
         \cup {EUnary(u, t) : u \in {"negate", "not"}, t \in SubExprs(n - 1)}

InitAdjust == InitApply({<<e>> : e \in SubExprs(MaxOperators)})

ApplyAdjust == Returns(adjustSteps(inputs[1], <<>>))

NextAdjust == ApplyAdjust

SpecAdjust == InitAdjust /\ [][NextAdjust]_vars

IsAtom(e) == e.t = "num" \/ (e.t = "unary" /\ e.op = "noOp")

\* e is a chain of operands and binary operators, no sign in it
RECURSIVE IsChain(_)
IsChain(e) == IsAtom(e) \/ (e.t = "binary" /\ IsAtom(e.l) /\ IsChain(e.r))

RECURSIVE Operands(_)
Operands(e) == IF e.t = "binary" THEN <<e.l>> \o Operands(e.r) ELSE <<e>>

RECURSIVE Operators(_)
Operators(e) == IF e.t = "binary" THEN <<e.op>> \o Operators(e.r) ELSE <<>>

\* the last of the operators of lowest precedence
Loosest(ops) ==
    CHOOSE k \in 1..Len(ops) :
        /\ \A i \in 1..Len(ops) : opPrecedence(ops[k]) <= opPrecedence(ops[i])
        /\ \A i \in (k + 1)..Len(ops) : opPrecedence(ops[k]) < opPrecedence(ops[i])

\* the chain xs[1] ops[1] xs[2] ... grouped by precedence, equal precedences
\* from the left
RECURSIVE Grouped(_, _)
Grouped(xs, ops) ==
    IF ops = <<>> THEN xs[1]
    ELSE EBinary(ops[Loosest(ops)],
                 Grouped(SubSeq(xs, 1, Loosest(ops)), SubSeq(ops, 1, Loosest(ops) - 1)),
                 Grouped(SubSeq(xs, Loosest(ops) + 1, Len(xs)),
                         SubSeq(ops, Loosest(ops) + 1, Len(ops))))

\* a op1 b op2 c, as (a op1 b) op2 c or as a op1 (b op2 c)
ThreeOperands(xs, ops) ==
    IF opPrecedence(ops[2]) <= opPrecedence(ops[1])
    THEN EBinary(ops[2], EBinary(ops[1], xs[1], xs[2]), xs[3])
    ELSE EBinary(ops[1], xs[1], EBinary(ops[2], xs[2], xs[3]))

\* C33: a op1 b op2 c is grouped as (a op1 b) op2 c exactly when
\* prec(op2) <= prec(op1), and otherwise as a op1 (b op2 c); a longer chain
\* is grouped by the same rule, the loosest operators outermost and equal
\* precedences from the left.
C33_PrecedenceLaw ==
    output # <<>> /\ IsChain(inputs[1]) =>
        \E xs \in {Operands(inputs[1])} : \E ops \in {Operators(inputs[1])} :
            /\ output[1].tree = Grouped(xs, ops)
            /\ Len(ops) = 2 => output[1].tree = ThreeOperands(xs, ops)

\* 2 + 2 * 2 + 2 became [[2 + [2 * 2]] + 2], which is 8
C33_Witness ==
    /\ output # <<>>
    /\ Operators(inputs[1]) = <<"add", "multiply", "add">>
    /\ Operands(inputs[1]) = <<Leaf, Leaf, Leaf, Leaf>>
    /\ output[1].tree = EBinary("add", EBinary("add", Leaf,
                                               EBinary("multiply", Leaf, Leaf)), Leaf)
    /\ Eval(output[1].tree, NewEngine).v = Num(8)

\* the operators of e, brackets included
RECURSIVE OperatorCount(_)
OperatorCount(e) ==
    CASE e.t = "binary" -> OperatorCount(e.l) + OperatorCount(e.r) + 1
      [] e.t = "unary" -> OperatorCount(e.e) + 1
      [] OTHER -> 0

\* the pairs <<i, j>> of operators of e, numbered from off + 1 in the order
\* of the text, with i above j in the tree; a rotation keeps the order
RECURSIVE AbovePairs(_, _)
AbovePairs(e, off) ==
    CASE e.t = "binary" ->
           AbovePairs(e.l, off) \cup AbovePairs(e.r, off + OperatorCount(e.l) + 1)
           \cup {<<off + OperatorCount(e.l) + 1, k>> :
                   k \in (off + 1)..(off + OperatorCount(e)) \ {off + OperatorCount(e.l) + 1}}
      [] e.t = "unary" ->
           AbovePairs(e.e, off + 1)
           \cup {<<off + 1, k>> : k \in (off + 2)..(off + OperatorCount(e))}
      [] OTHER -> {}

\* the inversions of e: the pairs of operators one above the other in e that
\* stand the other way round in the adjusted tree, whose pairs are final
Inverted(e, final) ==
    Cardinality({p \in AbovePairs(e, 0) : <<p[2], p[1]>> \in final})

-----------------------------------------------------------------------------
(* The operators && and || on their own.                                   *)

\* right operands: parameters that were never set, numbers, and an operator
\* over a parameter that was never set
RightOperands ==
    { ERef(1), ERef(2), ENum(Num(0)), ENum(Num(1)), ENum(Num(2)), ENum(Rat(-1, 2)),
      EBinary("or", ENum(Num(0)), ERef(1)) }

InitLogic ==
    InitApply({<<op, l, r>> : op \in {"and", "or"}, l \in EqualNumbers,
                              r \in RightOperands})

ApplyLogic ==
    Returns(Eval(EBinary(inputs[1], ENum(inputs[2]), inputs[3]), NewEngine))

NextLogic == ApplyLogic

SpecLogic == InitLogic /\ [][NextLogic]_vars

\* C34: 0 && e is 0 and n || e, n not zero, is 1, whether or not e can be
\* evaluated; otherwise the result is that of e, an error when e fails and
\* else 0 for zero and 1 for any other number.
C34_ShortCircuit ==
    output # <<>> =>
        \E op \in {inputs[1]} : \E l \in {inputs[2]} :
        \E r \in {Eval(inputs[3], NewEngine)} :
            /\ op = "and" /\ l = Num(0) => output[1] = Val(Num(0))
            /\ op = "or" /\ l # Num(0) => output[1] = Val(Num(1))
            /\ (op = "and") # (l = Num(0)) =>
                   IF r.st # "ok" THEN output[1].st = r.st
                   ELSE output[1] = Val(IF r.v = Num(0) THEN Num(0) ELSE Num(1))
            /\ output[1].st = "ok" => output[1].v \in {Num(0), Num(1)}

\* 0 && #1 gave 0 although parameter 1 was never set
C34_Witness ==
    /\ output = <<Val(Num(0))>>
    /\ inputs = <<"and", Num(0), ERef(1)>>
    /\ Eval(ERef(1), NewEngine).st # "ok"

-----------------------------------------------------------------------------
(* Programs with arc words in every move mode.                             *)

MaxArcLines == 3

ArcLines ==
    { <<G(0), W("X", 1, 1), TNL>>,                                   \* G0 X1
      <<G(1), W("Y", 1, 1), TNL>>,                                   \* G1 Y1
      <<G(2), W("X", 1, 1), W("I", 1, 1), TNL>>,                     \* G2 X1 I1
      <<G(3), W("Y", 2, 1), W("R", 2, 1), TNL>>,                     \* G3 Y2 R2
      <<W("I", 1, 1), W("X", 2, 1), TNL>>,                           \* I1 X2
      <<W("J", 1, 1), TNL>>,                                         \* J1
      <<W("K", 1, 1), TNL>>,                                         \* K1
      <<W("R", 1, 1), W("Y", 1, 1), TNL>>,                           \* R1 Y1
      <<W("X", 2, 1), W("J", 1, 1), TNL>>,                           \* X2 J1
      <<W("Z", 1, 1), TNL>> }                                        \* Z1

NextArc ==
    \/ Feed(ArcLines, MaxArcLines)
    \/ ParseToken
    \/ Eof
    \/ Dispatch

SpecArc == Init /\ [][NextArc]_vars

ArcWords == {"I", "J", "K", "R"}

\* the codes a dispatch from cs to cs2 took from the line
Taken(cs, cs2) == SubSeq(cs, 1, Len(cs) - Len(cs2))

\* C35: a dispatch that starts at an I, J, K or R word in rapid or linear
\* mode is an error that calls nothing and changes nothing; a dispatch that
\* takes such a word from the line ends in an arc mode; and no dispatch of a
\* code the engine interprets ends in a panic.
C35_ArcWordsInArcMode ==
    [][ (pc = "dispatch" /\ ~IsUnknownCode(Head(lineCodes))) =>
          /\ ( /\ Head(lineCodes).Letter \in ArcWords
               /\ eng.moveMode \in {"rapidMove", "linearMove"} ) =>
                   /\ pc' = "error"
                   /\ hist'.err = "arg not allowed"
                   /\ calls' = calls
                   /\ eng' = eng
          /\ ( /\ pc' \in {"dispatch", "parse"}
               /\ \E i \in 1..Len(Taken(lineCodes, lineCodes')) :
                     lineCodes[i].Letter \in ArcWords ) =>
                   /\ eng'.moveMode \in ArcModes
                   /\ eng.moveMode \in ArcModes \/ IsG(Head(lineCodes), 2)
                      \/ IsG(Head(lineCodes), 3)
          /\ pc' # "crash"
      ]_vars

\* after G1 Y1 had moved the tool, the R word of the line R1 Y1 was rejected
C35_Witness ==
    /\ pc = "error"
    /\ hist.lastAct = "dispatch"
    /\ hist.err = "arg not allowed"
    /\ eng.moveMode = "linearMove"
    /\ lineCodes = <<Code("Y", Num(1))>>
    /\ calls # <<>>

-----------------------------------------------------------------------------
(* Programs with IF statements.                                            *)

MaxIfLines == 3

IfFeatures == {{"BeagleG"}, {"BeagleG", "LinuxCNC"}, AllFeatures}

Sets(num, n) == ANumAssign(num, "assign", ENum(Num(n)))

IfLines ==
    { <<TAssign(1, "assign", ENum(Num(1))), TNL>>,                   \* #1=1
      <<TIf(ENum(Num(1)), Sets(1, 2), <<>>, <<>>, <<>>)>>,           \* IF 1 THEN #1=2
      <<TIf(ENum(Num(0)), Sets(1, 2), <<>>, <<>>, <<Sets(1, 3)>>)>>,
                                                          \* IF 0 THEN #1=2 ELSE #1=3
      <<TIf(ENum(Num(0)), Sets(1, 2), <<ENum(Num(1))>>, <<Sets(2, 0)>>, <<>>)>>,
                                                   \* IF 0 THEN #1=2 ELSEIF 1 THEN #2=0
      <<TIf(ERef(1), Sets(2, 1), <<>>, <<>>, <<>>)>>,                \* IF #1 THEN #2=1
      <<TCode("G", ERef(1)), TNL>>,                                  \* G#1
      <<TCode("G", ERef(2)), TCode("X", ERef(1)), TNL>> }            \* G#2 X#1

InitIf == \E f \in IfFeatures : InitWith(f, InitHist, <<>>)

NextIf ==
    \/ Feed(IfLines, MaxIfLines)
    \/ ParseToken
    \/ Eof
    \/ Dispatch

SpecIf == InitIf /\ [][NextIf]_vars

\* C36: when an IF has selected the assignment of a number to a parameter
\* and the line after the IF starts with a code whose value is that
\* parameter, the code is read without an error and its value is the number.
C36_IfAssignsByEndOfLine ==
    [][ ( /\ pc = "parse"
          /\ stack = <<>>
          /\ src # <<>>
          /\ Head(src).k = "code"
          /\ codes = <<>>
          /\ hist.ifChose # <<>> ) =>
             \A a \in {hist.ifChose[1]} :
                Head(src).expr = ERef(a.num) =>
                   /\ pc' = "parse"
                   /\ codes' = <<Code(Head(src).letter, a.expr.v)>>
      ]_vars

-----------------------------------------------------------------------------
(* Numbered parameters on their own.                                       *)

\* the largest parameter number the parser accepts
maxNumParam == 32767

\* parameter numbers: stored ones, the predefined ones, the coordinate-system
\* table with the numbers next to it, and the largest
ParamNumbers ==
    {1, 100, homePosXParam, secondPosZParam, workPosEnabled, workPosXParam,
     curCoordSysParam, debugParam, maxNumParam}
    \cup (coordSysParam..(coordSysParam + coordSysParamStep * (CoordSysCount + 1)))

InitParam ==
    InitApply({<<kind, num>> : kind \in {"get", "set"}, num \in ParamNumbers})

\* the engine's GetNumParam and SetNumParam, as the parser calls them
ApplyParam ==
    Returns(IF inputs[1] = "get" THEN getNumParam(NewEngine, inputs[2]).crash
            ELSE setNumParam(NewEngine, inputs[2], Num(1)).crash)

NextParam == ApplyParam

SpecParam == InitParam /\ [][NextParam]_vars

\* C38: reading or writing a parameter, whatever its number, indexes the
\* table of the nine coordinate systems within its bounds.
C38_IndexInRange == output # <<>> => output[1] = FALSE

-----------------------------------------------------------------------------
(* Programs with WHILE loops.                                              *)

MaxCount == 3

Half == Rat(1, 2)
Tiny == Rat(1, 20000)       \* below the tolerance of Number.Equal
Less(num, n) == EBinary("lessThan", ERef(num), ENum(Num(n)))
Inc(num) == <<TAssign(num, "assignPlus", ENum(Num(1))), TNL>>

\* #100=0 / WHILE [#100 < n] DO / T#100 / #100 += 1 / END / M3
CountUp(n) ==
    <<TAssign(100, "assign", ENum(Num(0))), TNL, TWhile(Less(100, n)),
      TCode("T", ERef(100)), TNL>> \o Inc(100) \o <<TEnd, M(3), TNL>>

\* #1=v / WHILE #1 DO / T[#1 * 2] / #1 -= 0.5 / END / M3
CountDown(v) ==
    <<TAssign(1, "assign", ENum(v)), TNL, TWhile(ERef(1)),
      TCode("T", EBinary("multiply", ERef(1), ENum(Num(2)))), TNL,
      TAssign(1, "assignMinus", ENum(Half)), TNL, TEnd, M(3), TNL>>

\* #100=0 #1=0 / WHILE [#1 < n] DO / #2=0 / WHILE [#2 < m] DO / #100 += 1 /
\* T#100 / #2 += 1 / END / M5 / #1 += 1 / END / M3
Nested(n, m) ==
    <<TAssign(100, "assign", ENum(Num(0))), TAssign(1, "assign", ENum(Num(0))), TNL,
      TWhile(Less(1, n)),
      TAssign(2, "assign", ENum(Num(0))), TNL,
      TWhile(Less(2, m))>>
    \o Inc(100) \o <<TCode("T", ERef(100)), TNL>> \o Inc(2)
    \o <<TEnd, M(5), TNL>> \o Inc(1) \o <<TEnd, M(3), TNL>>

WhilePrograms ==
    {[kind |-> "up", n |-> n, m |-> 0, src |-> CountUp(n)] : n \in 0..MaxCount}
    \cup {[kind |-> "down", n |-> n, m |-> 0, src |-> CountDown(Rat(n, 2))] :
             n \in 0..MaxCount}
    \cup {[kind |-> "down", n |-> 0, m |-> 0, src |-> CountDown(Tiny)]}
    \cup {[kind |-> "nested", n |-> n, m |-> m, src |-> Nested(n, m)] :
             n \in 0..MaxCount, m \in 0..MaxCount}

InitWhile ==
    \E f \in {{"BeagleG"}, AllFeatures} : \E prog \in WhilePrograms :
        InitWith(f, [InitHist EXCEPT !.prog = <<prog>>], prog.src)

NextWhile ==
    \/ ParseToken
    \/ StackStep
    \/ Eof
    \/ Dispatch

SpecWhile == InitWhile /\ [][NextWhile]_vars

Prog == hist.prog[1]
SpindleStart == <<"setSpindle", <<Num(0), TRUE>>>>

\* C6: a loop whose test is non-zero n times and then zero (zero meaning
\* equal to 0 under the number tolerance) has run its body exactly n times
\* when the program is done, with n+1 evaluations of the test, the body's
\* expression taking the parameter's current value in every iteration; and
\* at no time has the body run more often than the test was evaluated.
C6_WhileLoop ==
    (Prog.kind \in {"up", "down"}) =>
        /\ Len(calls) <= hist.whileTests
        /\ pc = "done" =>
             /\ hist.whileTests = Prog.n + 1
             /\ Len(calls) = Prog.n + 1
             /\ calls[Prog.n + 1] = SpindleStart
             /\ \A i \in 1..Prog.n :
                   calls[i] = <<"selectTool",
                                IF Prog.kind = "up" THEN i - 1 ELSE Prog.n + 1 - i>>

C6_Witness ==
    /\ Prog.kind = "down"
    /\ Prog.n = 2
    /\ pc = "done"
    /\ calls = <<<<"selectTool", 2>>, <<"selectTool", 1>>, SpindleStart>>

\* C7: with an outer count n and an inner count m the inner body has run
\* exactly n*m times when the program is done, the code after the inner loop
\* once after each of the n runs of the inner loop, and the code after the
\* outer END once, last.
C7_NestedWhile ==
    (Prog.kind = "nested" /\ pc = "done") =>
        /\ eng.numParams[100] = Num(Prog.n * Prog.m)
        /\ Len(calls) = Prog.n * (Prog.m + 1) + 1
        /\ calls[Len(calls)] = SpindleStart
        /\ \A i \in 1..(Prog.n * (Prog.m + 1)) :
              LET outer == (i - 1) \div (Prog.m + 1)
                  inner == (i - 1) % (Prog.m + 1)
              IN  calls[i] = IF inner < Prog.m
                             THEN <<"selectTool", outer * Prog.m + inner + 1>>
                             ELSE <<"spindleOff", 0>>

C7_Witness ==
    /\ Prog.kind = "nested"
    /\ Prog.n = 2 /\ Prog.m = 3
    /\ pc = "done"
    /\ Len(calls) = 9
    /\ calls[7] = <<"selectTool", 6>>

\* the deepest nesting of WHILE ... END in the source s, open loops being
\* open at its start
RECURSIVE MaxNesting(_, _, _)
MaxNesting(s, open, deepest) ==
    IF s = <<>> THEN deepest
    ELSE LET o == CASE Head(s).k = "while" -> open + 1
                    [] Head(s).k = "end" -> open - 1
                    [] OTHER -> open
         IN  MaxNesting(Tail(s), o, IF o > deepest THEN o ELSE deepest)

LastOf(frame) == frame[Len(frame)]

\* C40: every frame of the execution stack is the rest of the body of a
\* loop that is being executed, ending with that loop's header; the loop of
\* a frame is written inside the loop of the frame below it, so the stack
\* is never deeper than the loops of the program are nested, whatever the
\* number of iterations; and the stack is empty when the code after the
\* outermost loop is executed and when the program is done.
C40_StackBounded ==
    /\ Len(stack) <= MaxNesting(Prog.src, 0, 0)
    /\ \A i \in 1..Len(stack) : stack[i] # <<>> /\ LastOf(stack[i]).k = "while"
    /\ \A i \in 1..(Len(stack) - 1) :
          \E j \in 1..Len(LastOf(stack[i + 1]).actions) :
             LastOf(stack[i + 1]).actions[j] = LastOf(stack[i])
    /\ (calls # <<>> /\ calls[Len(calls)] = SpindleStart) => stack = <<>>
    /\ pc = "done" => stack = <<>>

\* the inner of two nested loops is in its sixth iteration, the outer one
\* in its second: two frames
C40_Witness ==
    /\ Prog.kind = "nested"
    /\ Len(stack) = 2
    /\ eng.numParams[100] = Num(5)
    /\ hist.lastAct = "code"

====
